---- MODULE Spec2Model ----
(***************************************************************************)
(* Stock ledger of the inventory management agent                          *)
(* (src/src/tools/inventory_tools.py): update_stock_quantity,              *)
(* reconcile_inventory, allocate_stock and deallocate_stock acting on the  *)
(* inventory_items, locations and audit_logs tables through SQLAlchemy     *)
(* sessions (src/src/db/database.py).                                      *)
(*                                                                         *)
(* Spec     : the tools called one after another (each call runs from its  *)
(*            first SELECT to its commit with no other call in between).   *)
(* ConcSpec : the tools called from concurrent sessions.  A session reads  *)
(*            the rows it needs with plain SELECTs, computes the new       *)
(*            values in Python and writes them at commit; no row is        *)
(*            locked and no version column is checked.                     *)
(* AllocSpec: ConcSpec restricted to calls of allocate_stock.              *)
(* ReceivedSpec: ConcSpec started after a first receipt of Y at A.         *)
(* WarehouseSpec: the read-only tools of operations_tools.py and           *)
(*            replenishment_tools.py called on a layout with stock.        *)
(* RouteLoopSpec: generate_pick_route with its loop taken step by step.    *)
(***************************************************************************)
EXTENDS Integers, Sequences, FiniteSets, TLC

VARIABLES
    inventory_items,   \* table inventory_items: sequence of rows, id = index
    locations,         \* table locations: code -> row
    audit_logs,        \* table audit_logs: sequence of rows, in commit order
    session,           \* per session: position in the tool and the rows it loaded
    ret,               \* the most recent tool return
    calls,             \* number of tool calls that have returned
    mutations          \* history: number of commits that wrote an inventory item

vars == <<inventory_items, locations, audit_logs, session, ret, calls, mutations>>

db == <<inventory_items, locations, audit_logs>>

(***************************************************************************)
(* Bounds and input domains                                                *)
(***************************************************************************)
MaxOps == 3
MaxConcOps == 2

Skus == {"X", "Y"}
LocationCodes == {"A"}
Quantities == {-1, 0, 10, 40, 45}
MovementInputs == {"receiving", "bogus"}
Sessions == {"s1", "s2"}
Tools == {"update_stock_quantity", "reconcile_inventory", "allocate_stock", "deallocate_stock"}

\* <<sku, location_code, quantity>> arguments of a call; "NOSKU" and "NOLOC"
\* resolve to no product and no location
NotFoundRequests == {<<"NOSKU", "A", 10>>, <<"X", "NOLOC", 10>>}
Requests == (Skus \X LocationCodes \X Quantities) \cup NotFoundRequests

\* class MovementType
MovementType ==
    {"receiving", "putaway", "pick", "transfer", "adjustment", "return", "write_off"}

\* Location.capacity_units column default
capacity_units_default == 100

(***************************************************************************)
(* Rows                                                                    *)
(***************************************************************************)
\* InventoryItem(...) as the tools construct it: all three quantities 0
InventoryItem(product_id, location_id) ==
    [product_id |-> product_id, location_id |-> location_id,
     quantity_on_hand |-> 0, quantity_allocated |-> 0, quantity_available |-> 0]

QuantityColumns == {"quantity_on_hand", "quantity_allocated", "quantity_available"}

\* The columns an ORM flush puts in the UPDATE: those whose value differs
\* from the value the session loaded.
ChangedColumns(loaded, row) == {c \in QuantityColumns : row[c] # loaded[c]}

\* select(InventoryItem).where(product_id == ..., location_id == ...)
SelectItems(sku, code) ==
    {i \in 1..Len(inventory_items) :
        /\ inventory_items[i].product_id = sku
        /\ inventory_items[i].location_id = code}

(***************************************************************************)
(* What a tool call decides from the rows it loaded: a status, and on      *)
(* success the writes its commit performs.                                 *)
(***************************************************************************)
NoAudit == <<>>

Fail(status) ==
    [status |-> status, write_item |-> FALSE, row |-> InventoryItem("", ""),
     write_location |-> FALSE, current_units |-> 0, audit |-> NoAudit]

\* Lookups that answer an unknown SKU or location like a pair with no stock
LookupStatus_as_no_inventory(sku, code) ==
    IF sku \notin Skus \/ code \notin LocationCodes THEN "no_inventory" ELSE "ok"

\* Product and Location lookups at the head of every ledger tool
LookupStatus(sku, code) ==
    IF sku \notin Skus THEN "product_not_found"
    ELSE IF code \notin LocationCodes THEN "location_not_found"
    ELSE "ok"

\* update_stock_quantity that commits what it staged when MovementType(...) raises
update_stock_quantity_no_rollback(sku, code, quantity_change, movement_type, units, id, loaded) ==
    LET inventory_item == IF id = 0 THEN InventoryItem(sku, code) ELSE loaded
        previous_quantity == inventory_item.quantity_on_hand
        new_quantity == previous_quantity + quantity_change
    IN  IF id = 0 /\ quantity_change < 0 THEN Fail("no_inventory")
        ELSE IF new_quantity < 0 THEN Fail("insufficient_stock")
        ELSE [status |-> IF movement_type \notin MovementType THEN "exception"
                         ELSE "success",
              write_item |-> TRUE,
              row |-> [inventory_item EXCEPT
                          !.quantity_on_hand = new_quantity,
                          !.quantity_available =
                              new_quantity - inventory_item.quantity_allocated],
              write_location |-> TRUE,
              current_units |-> units + quantity_change,
              audit |-> IF movement_type \notin MovementType THEN NoAudit
                        ELSE <<[entity_id |-> id, action |-> "stock_update",
                                quantity_before |-> previous_quantity,
                                quantity_after |-> new_quantity,
                                quantity_change |-> quantity_change,
                                reference_number |-> ""]>>]

\* update_stock_quantity that tests the available instead of the on-hand quantity
update_stock_quantity_checks_available(sku, code, quantity_change, movement_type, units, id, loaded) ==
    LET inventory_item == IF id = 0 THEN InventoryItem(sku, code) ELSE loaded
        previous_quantity == inventory_item.quantity_on_hand
        new_quantity == previous_quantity + quantity_change
    IN  IF id = 0 /\ quantity_change < 0 THEN Fail("no_inventory")
        ELSE IF inventory_item.quantity_available + quantity_change < 0
        THEN Fail("insufficient_stock")
        ELSE IF movement_type \notin MovementType THEN Fail("exception")
        ELSE [status |-> "success",
              write_item |-> TRUE,
              row |-> [inventory_item EXCEPT
                          !.quantity_on_hand = new_quantity,
                          !.quantity_available =
                              new_quantity - inventory_item.quantity_allocated],
              write_location |-> TRUE,
              current_units |-> units + quantity_change,
              audit |-> <<[entity_id |-> id, action |-> "stock_update",
                           quantity_before |-> previous_quantity,
                           quantity_after |-> new_quantity,
                           quantity_change |-> quantity_change,
                           reference_number |-> ""]>>]

\* update_stock_quantity after the lookups; id = 0: no inventory item found
update_stock_quantity(sku, code, quantity_change, movement_type, units, id, loaded) ==
    LET inventory_item == IF id = 0 THEN InventoryItem(sku, code) ELSE loaded
        previous_quantity == inventory_item.quantity_on_hand
        new_quantity == previous_quantity + quantity_change
    IN  IF id = 0 /\ quantity_change < 0 THEN Fail("no_inventory")
        ELSE IF new_quantity < 0 THEN Fail("insufficient_stock")
        ELSE IF movement_type \notin MovementType THEN Fail("exception")
        ELSE [status |-> "success",
              write_item |-> TRUE,
              row |-> [inventory_item EXCEPT
                          !.quantity_on_hand = new_quantity,
                          !.quantity_available =
                              new_quantity - inventory_item.quantity_allocated],
              write_location |-> TRUE,
              current_units |-> units + quantity_change,
              audit |-> <<[entity_id |-> id, action |-> "stock_update",
                           quantity_before |-> previous_quantity,
                           quantity_after |-> new_quantity,
                           quantity_change |-> quantity_change,
                           reference_number |-> ""]>>]

\* reconcile_inventory without the early return on zero variance
reconcile_inventory_no_early_return(sku, code, counted_quantity, units, id, loaded) ==
    LET system_quantity == IF id = 0 THEN 0 ELSE loaded.quantity_on_hand
        variance == counted_quantity - system_quantity
    IN  [status |-> "success",
         write_item |-> TRUE,
         row |-> IF id = 0
                 THEN [InventoryItem(sku, code) EXCEPT
                          !.quantity_on_hand = counted_quantity,
                          !.quantity_available = counted_quantity]
                 ELSE [loaded EXCEPT
                          !.quantity_on_hand = counted_quantity,
                          !.quantity_available =
                              counted_quantity - loaded.quantity_allocated],
         write_location |-> FALSE,
         current_units |-> units,
         audit |-> <<[entity_id |-> id, action |-> "reconciliation",
                      quantity_before |-> system_quantity,
                      quantity_after |-> counted_quantity,
                      quantity_change |-> variance,
                      reference_number |-> ""]>>]

\* reconcile_inventory that computes the variance as system - counted
reconcile_inventory_variance_sign(sku, code, counted_quantity, units, id, loaded) ==
    LET system_quantity == IF id = 0 THEN 0 ELSE loaded.quantity_on_hand
        variance == system_quantity - counted_quantity
    IN  IF variance = 0
        THEN [Fail("success") EXCEPT !.row = loaded]
        ELSE [status |-> "success",
              write_item |-> TRUE,
              row |-> IF id = 0
                      THEN [InventoryItem(sku, code) EXCEPT
                               !.quantity_on_hand = counted_quantity,
                               !.quantity_available = counted_quantity]
                      ELSE [loaded EXCEPT
                               !.quantity_on_hand = counted_quantity,
                               !.quantity_available =
                                   counted_quantity - loaded.quantity_allocated],
              write_location |-> FALSE,
              current_units |-> units,
              audit |-> <<[entity_id |-> id, action |-> "reconciliation",
                           quantity_before |-> system_quantity,
                           quantity_after |-> counted_quantity,
                           quantity_change |-> variance,
                           reference_number |-> ""]>>]

\* reconcile_inventory after the lookups
reconcile_inventory(sku, code, counted_quantity, units, id, loaded) ==
    LET system_quantity == IF id = 0 THEN 0 ELSE loaded.quantity_on_hand
        variance == counted_quantity - system_quantity
    IN  IF variance = 0
        THEN [Fail("success") EXCEPT !.row = loaded]
        ELSE [status |-> "success",
              write_item |-> TRUE,
              row |-> IF id = 0
                      THEN [InventoryItem(sku, code) EXCEPT
                               !.quantity_on_hand = counted_quantity,
                               !.quantity_available = counted_quantity]
                      ELSE [loaded EXCEPT
                               !.quantity_on_hand = counted_quantity,
                               !.quantity_available =
                                   counted_quantity - loaded.quantity_allocated],
              write_location |-> FALSE,
              current_units |-> units,
              audit |-> <<[entity_id |-> id, action |-> "reconciliation",
                           quantity_before |-> system_quantity,
                           quantity_after |-> counted_quantity,
                           quantity_change |-> variance,
                           reference_number |-> ""]>>]

\* allocate_stock that rejects a request for all of the available quantity
allocate_stock_off_by_one(sku, code, quantity, order_reference, units, id, loaded) ==
    LET available == loaded.quantity_on_hand - loaded.quantity_allocated
        allocated == loaded.quantity_allocated + quantity
    IN  IF id = 0 THEN Fail("no_inventory")
        ELSE IF available <= quantity THEN Fail("insufficient_available")
        ELSE [status |-> "success",
              write_item |-> TRUE,
              row |-> [loaded EXCEPT
                          !.quantity_allocated = allocated,
                          !.quantity_available = loaded.quantity_on_hand - allocated],
              write_location |-> FALSE,
              current_units |-> units,
              audit |-> <<[entity_id |-> id, action |-> "allocation",
                           quantity_change |-> quantity,
                           reference_number |-> order_reference]>>]

\* allocate_stock that commits without adding its audit log
allocate_stock_no_audit(sku, code, quantity, order_reference, units, id, loaded) ==
    LET available == loaded.quantity_on_hand - loaded.quantity_allocated
        allocated == loaded.quantity_allocated + quantity
    IN  IF id = 0 THEN Fail("no_inventory")
        ELSE IF available < quantity THEN Fail("insufficient_available")
        ELSE [status |-> "success",
              write_item |-> TRUE,
              row |-> [loaded EXCEPT
                          !.quantity_allocated = allocated,
                          !.quantity_available = loaded.quantity_on_hand - allocated],
              write_location |-> FALSE,
              current_units |-> units,
              audit |-> NoAudit]

\* allocate_stock after the lookups
allocate_stock(sku, code, quantity, order_reference, units, id, loaded) ==
    LET available == loaded.quantity_on_hand - loaded.quantity_allocated
        allocated == loaded.quantity_allocated + quantity
    IN  IF id = 0 THEN Fail("no_inventory")
        ELSE IF available < quantity THEN Fail("insufficient_available")
        ELSE [status |-> "success",
              write_item |-> TRUE,
              row |-> [loaded EXCEPT
                          !.quantity_allocated = allocated,
                          !.quantity_available = loaded.quantity_on_hand - allocated],
              write_location |-> FALSE,
              current_units |-> units,
              audit |-> <<[entity_id |-> id, action |-> "allocation",
                           quantity_change |-> quantity,
                           reference_number |-> order_reference]>>]

\* deallocate_stock that rejects the release of all allocated units
deallocate_stock_off_by_one(sku, code, quantity, units, id, loaded) ==
    LET allocated == loaded.quantity_allocated - quantity
    IN  IF id = 0 THEN Fail("no_inventory")
        ELSE IF loaded.quantity_allocated <= quantity THEN Fail("over_deallocation")
        ELSE [status |-> "success",
              write_item |-> TRUE,
              row |-> [loaded EXCEPT
                          !.quantity_allocated = allocated,
                          !.quantity_available = loaded.quantity_on_hand - allocated],
              write_location |-> FALSE,
              current_units |-> units,
              audit |-> <<[entity_id |-> id, action |-> "deallocation",
                           quantity_change |-> -quantity,
                           reference_number |-> ""]>>]

\* deallocate_stock after the lookups
deallocate_stock(sku, code, quantity, units, id, loaded) ==
    LET allocated == loaded.quantity_allocated - quantity
    IN  IF id = 0 THEN Fail("no_inventory")
        ELSE IF loaded.quantity_allocated < quantity THEN Fail("over_deallocation")
        ELSE [status |-> "success",
              write_item |-> TRUE,
              row |-> [loaded EXCEPT
                          !.quantity_allocated = allocated,
                          !.quantity_available = loaded.quantity_on_hand - allocated],
              write_location |-> FALSE,
              current_units |-> units,
              audit |-> <<[entity_id |-> id, action |-> "deallocation",
                           quantity_change |-> -quantity,
                           reference_number |-> ""]>>]

\* order_reference passed by the caller of allocate_stock
OrderReference == "ORD-1"

\* The body of a ledger tool between its SELECTs and its commit
Transaction(tool, sku, code, quantity, movement_type, units, id, loaded) ==
    CASE tool = "update_stock_quantity" ->
            update_stock_quantity(sku, code, quantity, movement_type, units, id, loaded)
      [] tool = "reconcile_inventory" ->
            reconcile_inventory(sku, code, quantity, units, id, loaded)
      [] tool = "allocate_stock" ->
            allocate_stock(sku, code, quantity, OrderReference, units, id, loaded)
      [] tool = "deallocate_stock" ->
            deallocate_stock(sku, code, quantity, units, id, loaded)

(***************************************************************************)
(* session.commit(): INSERT of a new inventory item or UPDATE of the       *)
(* changed columns of the loaded one, UPDATE of locations.current_units    *)
(* when it changed, INSERT of the audit log.  A failed call (early return  *)
(* or session.rollback()) writes nothing.                                  *)
(***************************************************************************)
CommitItems(txn, id, loaded) ==
    IF ~txn.write_item THEN inventory_items
    ELSE IF id = 0 THEN Append(inventory_items, txn.row)
    ELSE LET cols == ChangedColumns(loaded, txn.row)
         IN  [inventory_items EXCEPT
                 ![id] = [c \in DOMAIN @ |-> IF c \in cols THEN txn.row[c] ELSE @[c]]]

CommitLocations(txn, code, units) ==
    IF txn.write_location /\ txn.current_units # units
    THEN [locations EXCEPT ![code].current_units = txn.current_units]
    ELSE locations

\* A commit that keeps only the newest audit log
CommitAudit_overwriting(txn, id) ==
    IF txn.audit = NoAudit THEN audit_logs
    ELSE <<[txn.audit[1] EXCEPT
               !.entity_id = IF id = 0 THEN Len(inventory_items) + 1 ELSE id]>>

\* session.add(audit_log) and its INSERT at commit
CommitAudit(txn, id) ==
    IF txn.audit = NoAudit THEN audit_logs
    ELSE Append(audit_logs,
                [txn.audit[1] EXCEPT
                    !.entity_id = IF id = 0 THEN Len(inventory_items) + 1 ELSE id])

Commit(txn, code, units, id, loaded) ==
    /\ inventory_items' = CommitItems(txn, id, loaded)
    /\ locations' = CommitLocations(txn, code, units)
    /\ audit_logs' = CommitAudit(txn, id)
    /\ mutations' = IF txn.write_item THEN mutations + 1 ELSE mutations

Return(s, tool, sku, code, quantity, status) ==
    /\ ret' = [session |-> s, tool |-> tool, sku |-> sku, code |-> code,
               quantity |-> quantity, status |-> status]
    /\ calls' = calls + 1

(***************************************************************************)
(* Initial state: the database as scripts/seed_database.py leaves it:      *)
(* stock of X at A with nothing allocated, current_units = the units put   *)
(* in the location, no stock of Y, no audit log.                           *)
(***************************************************************************)
Idle ==
    [pc |-> "idle", tool |-> "", sku |-> "", code |-> "", quantity |-> 0,
     movement_type |-> "", units |-> 0, id |-> 0, loaded |-> InventoryItem("", ""),
     status |-> ""]

SeededItems ==
    <<[InventoryItem("X", "A") EXCEPT
          !.quantity_on_hand = 50, !.quantity_available = 50]>>

RECURSIVE SumOnHand(_, _)
SumOnHand(items, code) ==
    IF items = <<>> THEN 0
    ELSE (IF Head(items).location_id = code THEN Head(items).quantity_on_hand ELSE 0)
         + SumOnHand(Tail(items), code)

Init ==
    /\ inventory_items = SeededItems
    /\ locations = [code \in LocationCodes |->
                       [capacity_units |-> capacity_units_default,
                        current_units |-> SumOnHand(inventory_items, code)]]
    /\ audit_logs = <<>>
    /\ session = [s \in Sessions |-> Idle]
    /\ ret = [session |-> "", tool |-> "", sku |-> "", code |-> "",
              quantity |-> 0, status |-> ""]
    /\ calls = 0
    /\ mutations = 0

\* scalar_one_or_none() on the inventory item query: 0 stands for None
ScalarOneOrNone(found) == IF found = {} THEN 0 ELSE CHOOSE i \in found : TRUE

(***************************************************************************)
(* Spec: one call at a time                                                *)
(***************************************************************************)
Call(tool, sku, code, quantity, movement_type) ==
    /\ UNCHANGED session
    /\ IF LookupStatus(sku, code) # "ok"
       THEN /\ UNCHANGED <<db, mutations>>
            /\ Return("s1", tool, sku, code, quantity, LookupStatus(sku, code))
       ELSE LET found == SelectItems(sku, code)
                id == ScalarOneOrNone(found)
                loaded == IF id = 0 THEN InventoryItem("", "") ELSE inventory_items[id]
                units == locations[code].current_units
                txn == IF Cardinality(found) > 1 THEN Fail("exception")
                       ELSE Transaction(tool, sku, code, quantity, movement_type,
                                        units, id, loaded)
            IN  /\ Commit(txn, code, units, id, loaded)
                /\ Return("s1", tool, sku, code, quantity, txn.status)

Adjust ==
    /\ calls < MaxOps
    /\ \E r \in Requests, m \in MovementInputs :
          Call("update_stock_quantity", r[1], r[2], r[3], m)

Reconcile ==
    /\ calls < MaxOps
    /\ \E r \in Requests : Call("reconcile_inventory", r[1], r[2], r[3], "")

Allocate ==
    /\ calls < MaxOps
    /\ \E r \in Requests : Call("allocate_stock", r[1], r[2], r[3], "")

Deallocate ==
    /\ calls < MaxOps
    /\ \E r \in Requests : Call("deallocate_stock", r[1], r[2], r[3], "")

Next == Adjust \/ Reconcile \/ Allocate \/ Deallocate

Spec == Init /\ [][Next]_vars

(***************************************************************************)
(* ConcSpec: calls from concurrent sessions.  Each SELECT sees the rows    *)
(* committed at the time it runs; the commit writes what the session       *)
(* computed from the rows it loaded.                                       *)
(***************************************************************************)
Active == {s \in Sessions : session[s].pc \in {"located", "loaded"}}

\* The head of a tool: product lookup and SELECT of the location row
Start(s, tool, sku, code, quantity, movement_type) ==
    IF LookupStatus(sku, code) # "ok"
    THEN /\ Return(s, tool, sku, code, quantity, LookupStatus(sku, code))
         /\ UNCHANGED <<db, mutations, session>>
    ELSE /\ session' = [session EXCEPT ![s] =
                [Idle EXCEPT !.pc = "located", !.tool = tool, !.sku = sku,
                             !.code = code, !.quantity = quantity,
                             !.movement_type = movement_type,
                             !.units = locations[code].current_units]]
         /\ UNCHANGED <<db, ret, calls, mutations>>

\* A session starts a call of any ledger tool
Begin(s) ==
    /\ session[s].pc = "idle"
    /\ calls + Cardinality(Active) < MaxConcOps
    /\ \E tool \in Tools, r \in Requests, m \in MovementInputs :
          /\ tool # "update_stock_quantity" => m = "receiving"
          /\ Start(s, tool, r[1], r[2], r[3], m)

\* A session starts a call of allocate_stock
BeginAllocate(s) ==
    /\ session[s].pc = "idle"
    /\ calls + Cardinality(Active) < MaxConcOps
    /\ \E r \in Requests : Start(s, "allocate_stock", r[1], r[2], r[3], "receiving")

\* SELECT of the inventory item row
Load(s) ==
    /\ session[s].pc = "located"
    /\ LET found == SelectItems(session[s].sku, session[s].code)
           id == ScalarOneOrNone(found)
       IN  session' = [session EXCEPT ![s] =
               [@ EXCEPT !.pc = "loaded",
                         !.id = id,
                         !.loaded = IF id = 0 THEN InventoryItem("", "")
                                    ELSE inventory_items[id],
                         !.status = IF Cardinality(found) > 1 THEN "exception" ELSE ""]]
    /\ UNCHANGED <<db, ret, calls, mutations>>

\* The rest of the tool: the checks, the new values, commit or rollback, return
Finish(s) ==
    /\ session[s].pc = "loaded"
    /\ LET c == session[s]
           txn == IF c.status = "exception" THEN Fail("exception")
                  ELSE Transaction(c.tool, c.sku, c.code, c.quantity, c.movement_type,
                                   c.units, c.id, c.loaded)
       IN  /\ Commit(txn, c.code, c.units, c.id, c.loaded)
           /\ Return(s, c.tool, c.sku, c.code, c.quantity, txn.status)
           /\ session' = [session EXCEPT ![s] = Idle]

ConcNext == \E s \in Sessions : Begin(s) \/ Load(s) \/ Finish(s)

ConcSpec == Init /\ [][ConcNext]_vars

\* The database after update_stock_quantity('Y', 'A', 10, 'receiving') on the
\* seeded one: the record of Y at A was created by the ledger
ReceivedInit ==
    /\ inventory_items =
           Append(SeededItems, [InventoryItem("Y", "A") EXCEPT
                                   !.quantity_on_hand = 10, !.quantity_available = 10])
    /\ locations = [code \in LocationCodes |->
                       [capacity_units |-> capacity_units_default,
                        current_units |-> SumOnHand(inventory_items, code)]]
    /\ audit_logs = <<[entity_id |-> 2, action |-> "stock_update",
                       quantity_before |-> 0, quantity_after |-> 10,
                       quantity_change |-> 10, reference_number |-> ""]>>
    /\ session = [s \in Sessions |-> Idle]
    /\ ret = [session |-> "", tool |-> "", sku |-> "", code |-> "",
              quantity |-> 0, status |-> ""]
    /\ calls = 0
    /\ mutations = 1

\* ReceivedSpec: concurrent sessions on the database after a first receipt
ReceivedSpec == ReceivedInit /\ [][ConcNext]_vars

\* AllocSpec: concurrent sessions that only call allocate_stock
AllocNext == \E s \in Sessions : BeginAllocate(s) \/ Load(s) \/ Finish(s)

AllocSpec == Init /\ [][AllocNext]_vars

(***************************************************************************)
(* Properties                                                              *)
(***************************************************************************)
Max2(a, b) == IF a >= b THEN a ELSE b

\* Sum of quantity_change over the audit entries with index in ks
RECURSIVE SumChanges(_)
SumChanges(ks) ==
    IF ks = {} THEN 0
    ELSE LET k == CHOOSE x \in ks : TRUE
         IN  audit_logs[k].quantity_change + SumChanges(ks \ {k})

\* A tool call returned in this step
Returned == calls' = calls + 1

\* The call that returned in this step resolved its product and location
Resolved == LookupStatus(ret'.sku, ret'.code) = "ok"

\* id of the inventory item the returned call was about, before the step (Spec)
TargetId == ScalarOneOrNone(SelectItems(ret'.sku, ret'.code))

Rows == 1..Len(inventory_items)

\* C1: after any sequence of ledger operations every stock record has
\* 0 <= quantity_allocated <= quantity_on_hand.
C1_AllocatedWithinOnHand ==
    \A i \in Rows :
        /\ 0 <= inventory_items[i].quantity_allocated
        /\ inventory_items[i].quantity_allocated <= inventory_items[i].quantity_on_hand

\* C2: in every committed state the stored quantity_available of every stock
\* record equals quantity_on_hand - quantity_allocated.
C2_AvailableIsOnHandMinusAllocated ==
    \A i \in Rows :
        inventory_items[i].quantity_available =
            inventory_items[i].quantity_on_hand - inventory_items[i].quantity_allocated

\* C3: the availability check of allocate_stock and its increment of
\* quantity_allocated are one atomic step: whenever an allocate_stock call
\* commits, the record it increments still has the availability it checked,
\* so two concurrent calls whose combined quantity exceeds the availability
\* never both succeed.
C3_AllocateCheckAndIncrementAtomic ==
    [][(Returned /\ ret'.tool = "allocate_stock" /\ ret'.status = "success")
        => LET row == inventory_items[session[ret'.session].id]
           IN  row.quantity_on_hand - row.quantity_allocated >= ret'.quantity]_vars

\* C4: the number of audit entries equals the number of committed ledger
\* mutations: every commit that writes a stock record appends exactly one
\* audit entry, and failed calls (and zero-variance counts) append none.
C4_OneAuditEntryPerMutation == Len(audit_logs) = mutations

\* C4 witness: of two calls one committed a mutation with its audit entry and
\* the other, update_stock_quantity raising on its movement type, added none.
C4_Witness ==
    /\ mutations = 1
    /\ Len(audit_logs) = 1
    /\ calls = 2
    /\ ret.tool = "update_stock_quantity"
    /\ ret.status = "exception"

\* C5: a ledger call that returns an error leaves all stock records, all
\* location counters and the audit log as they were before the call.
C5_ErrorChangesNothing ==
    [][(Returned /\ ret'.status # "success") => UNCHANGED db]_vars

\* C5 witness: update_stock_quantity raised on the movement type after it had
\* set the new quantities in the session, following an earlier committed call.
C5_Witness ==
    /\ ret.tool = "update_stock_quantity"
    /\ ret.status = "exception"
    /\ ret.quantity > 0
    /\ audit_logs # <<>>

\* C6: after any sequence of ledger operations every location has
\* 0 <= current_units <= capacity_units.
C6_UnitsWithinCapacity ==
    \A code \in LocationCodes :
        /\ 0 <= locations[code].current_units
        /\ locations[code].current_units <= locations[code].capacity_units

\* C7: update_stock_quantity with a positive delta that would take the
\* location's current_units above capacity_units fails and leaves the stock
\* record, the location counter and the audit log unchanged.
C7_CapacityExceededRejected ==
    [][(/\ Returned
        /\ ret'.tool = "update_stock_quantity"
        /\ Resolved
        /\ ret'.quantity > 0
        /\ locations[ret'.code].current_units + ret'.quantity
               > locations[ret'.code].capacity_units)
        => (ret'.status # "success" /\ UNCHANGED db)]_vars

\* C8: reconcile_inventory with a counted quantity below the record's
\* quantity_allocated is rejected and changes nothing, so no negative
\* quantity_available is committed.
C8_ReconcileBelowAllocatedRejected ==
    [][(/\ Returned
        /\ ret'.tool = "reconcile_inventory"
        /\ Resolved
        /\ TargetId # 0
        /\ ret'.quantity < inventory_items[TargetId].quantity_allocated)
        => (ret'.status # "success" /\ UNCHANGED db)]_vars

\* C9: allocate_stock on an existing record fails with insufficient-available,
\* changing nothing, exactly when on_hand - allocated < quantity; otherwise it
\* adds quantity to quantity_allocated, leaves quantity_on_hand (and every
\* other record and the locations) unchanged and appends one audit entry with
\* the order reference.  With on-hand 50 and allocated 10, allocating 45 fails
\* and allocating 40 succeeds leaving available 0.
C9_AllocateContract ==
    [][(Returned /\ ret'.tool = "allocate_stock" /\ Resolved /\ TargetId # 0)
        => LET id == TargetId
               row == inventory_items[id]
               q == ret'.quantity
           IN  /\ ret'.status \in {"success", "insufficient_available"}
               /\ (ret'.status = "insufficient_available")
                      <=> (row.quantity_on_hand - row.quantity_allocated < q)
               /\ ret'.status = "insufficient_available" => UNCHANGED db
               /\ ret'.status = "success" =>
                      /\ Len(inventory_items') = Len(inventory_items)
                      /\ \A i \in Rows \ {id} : inventory_items'[i] = inventory_items[i]
                      /\ inventory_items'[id].quantity_allocated = row.quantity_allocated + q
                      /\ inventory_items'[id].quantity_on_hand = row.quantity_on_hand
                      /\ locations' = locations
                      /\ Len(audit_logs') = Len(audit_logs) + 1
                      /\ SubSeq(audit_logs', 1, Len(audit_logs)) = audit_logs
                      /\ audit_logs'[Len(audit_logs')].action = "allocation"
                      /\ audit_logs'[Len(audit_logs')].entity_id = id
                      /\ audit_logs'[Len(audit_logs')].reference_number = OrderReference
               /\ (row.quantity_on_hand = 50 /\ row.quantity_allocated = 10 /\ q = 45)
                      => ret'.status = "insufficient_available"
               /\ (row.quantity_on_hand = 50 /\ row.quantity_allocated = 10 /\ q = 40)
                      => (ret'.status = "success"
                          /\ inventory_items'[id].quantity_available = 0)]_vars

\* C9 witness: with on-hand 50 and 10 allocated, allocate_stock(40) has
\* succeeded and left available 0.
C9_Witness ==
    /\ ret.tool = "allocate_stock" /\ ret.status = "success" /\ ret.quantity = 40
    /\ Len(audit_logs) = 2
    /\ audit_logs[1].action = "allocation" /\ audit_logs[1].quantity_change = 10
    /\ audit_logs[2].reference_number = OrderReference
    /\ inventory_items[1].quantity_on_hand = 50
    /\ inventory_items[1].quantity_allocated = 50
    /\ inventory_items[1].quantity_available = 0

\* C10: deallocate_stock on an existing record fails with over-deallocation,
\* changing nothing, exactly when quantity > quantity_allocated; otherwise it
\* subtracts quantity from quantity_allocated, leaves quantity_on_hand
\* unchanged and adds quantity to quantity_available.
C10_DeallocateContract ==
    [][(Returned /\ ret'.tool = "deallocate_stock" /\ Resolved /\ TargetId # 0)
        => LET id == TargetId
               row == inventory_items[id]
               q == ret'.quantity
           IN  /\ ret'.status \in {"success", "over_deallocation"}
               /\ (ret'.status = "over_deallocation") <=> (q > row.quantity_allocated)
               /\ ret'.status = "over_deallocation" => UNCHANGED db
               /\ ret'.status = "success" =>
                      /\ inventory_items'[id].quantity_allocated = row.quantity_allocated - q
                      /\ inventory_items'[id].quantity_on_hand = row.quantity_on_hand
                      /\ inventory_items'[id].quantity_available = row.quantity_available + q]_vars

\* C10 witness: 10 of 10 allocated units were released.
C10_Witness ==
    /\ ret.tool = "deallocate_stock" /\ ret.status = "success" /\ ret.quantity = 10
    /\ Len(audit_logs) = 2
    /\ audit_logs[1].action = "allocation" /\ audit_logs[1].quantity_change = 10
    /\ audit_logs[2].action = "deallocation" /\ audit_logs[2].quantity_change = -10
    /\ inventory_items[1].quantity_allocated = 0
    /\ inventory_items[1].quantity_available = 50

\* Sum of quantity_change over the entries of log for item id with an action in actions
RECURSIVE AuditChange(_, _, _)
AuditChange(log, id, actions) ==
    IF log = <<>> THEN 0
    ELSE (IF Head(log).entity_id = id /\ Head(log).action \in actions
          THEN Head(log).quantity_change ELSE 0)
         + AuditChange(Tail(log), id, actions)

\* Indices of the audit entries for item id with an action in actions
AuditEntries(id, actions) ==
    {k \in 1..Len(audit_logs) :
        audit_logs[k].entity_id = id /\ audit_logs[k].action \in actions}

\* on-hand of the record a returned update_stock_quantity / reconcile_inventory
\* call was about, before the step: 0 when the pair has no record
TargetOnHand == IF TargetId = 0 THEN 0 ELSE inventory_items[TargetId].quantity_on_hand

\* id of that record after the step: a record created by the call is appended
TargetIdAfter == IF TargetId = 0 THEN Len(inventory_items) + 1 ELSE TargetId

\* C11 (as claimed): update_stock_quantity fails with the insufficient-stock
\* error (no-inventory error for a pair without record), changing nothing,
\* whenever on_hand + delta would be negative; otherwise quantity_on_hand
\* becomes exactly the previous value plus delta.
C11_AdjustFailsOrAdds ==
    [][(Returned /\ ret'.tool = "update_stock_quantity" /\ Resolved)
        => IF TargetOnHand + ret'.quantity < 0
           THEN /\ ret'.status \in {"insufficient_stock", "no_inventory"}
                /\ UNCHANGED db
           ELSE /\ Len(inventory_items') >= TargetIdAfter
                /\ inventory_items'[TargetIdAfter].quantity_on_hand
                       = TargetOnHand + ret'.quantity]_vars

\* C11 (amended): update_stock_quantity fails, changing nothing, whenever
\* on_hand + delta would be negative (insufficient-stock error, no-inventory
\* error for a pair without record) and otherwise whenever the movement type
\* is not a MovementType value; in every other case it succeeds and
\* quantity_on_hand becomes exactly the previous value plus delta.
C11_AdjustFailsOrAddsForValidMovement ==
    [][\A r \in Requests, m \in MovementInputs :
        (Call("update_stock_quantity", r[1], r[2], r[3], m)
         /\ LookupStatus(r[1], r[2]) = "ok")
        => IF TargetOnHand + r[3] < 0
           THEN /\ ret'.status \in {"insufficient_stock", "no_inventory"}
                /\ (ret'.status = "no_inventory") <=> (TargetId = 0)
                /\ UNCHANGED db
           ELSE IF m \notin MovementType
           THEN ret'.status = "exception" /\ UNCHANGED db
           ELSE /\ ret'.status = "success"
                /\ Len(inventory_items') = Max2(Len(inventory_items), TargetIdAfter)
                /\ inventory_items'[TargetIdAfter].quantity_on_hand
                       = TargetOnHand + r[3]]_vars

\* C11 witness: a removal was refused on a record emptied by an earlier call.
C11_Witness ==
    /\ ret.tool = "update_stock_quantity"
    /\ ret.status = "insufficient_stock"
    /\ ret.quantity = -1
    /\ mutations >= 1

\* C12: allocate_stock(q) that succeeds, followed by deallocate_stock(q) on the
\* same record, returns quantity_allocated and quantity_available to their
\* values before the pair (the allocate added q, so the deallocate must
\* succeed and take q off again) and appends two audit entries whose
\* quantity_change sum to zero.
C12_AllocateDeallocateRoundTrip ==
    [][(/\ Returned
        /\ ret.tool = "allocate_stock" /\ ret.status = "success"
        /\ ret'.tool = "deallocate_stock"
        /\ ret'.sku = ret.sku /\ ret'.code = ret.code /\ ret'.quantity = ret.quantity)
        => LET id == TargetId
               n == Len(audit_logs)
           IN  /\ ret'.status = "success"
               /\ inventory_items'[id].quantity_allocated
                      = inventory_items[id].quantity_allocated - ret.quantity
               /\ inventory_items'[id].quantity_available
                      = inventory_items[id].quantity_available + ret.quantity
               /\ Len(audit_logs') = n + 1
               /\ audit_logs'[n].quantity_change + audit_logs'[n + 1].quantity_change = 0]_vars

\* C13: reconcile_inventory called twice in a row on the same pair with the
\* same counted quantity finds zero variance the second time, changes no
\* quantity and appends no audit entry.
C13_ReconcileIdempotent ==
    [][(/\ Returned
        /\ ret.tool = "reconcile_inventory" /\ ret.status = "success"
        /\ ret'.tool = "reconcile_inventory"
        /\ ret'.sku = ret.sku /\ ret'.code = ret.code /\ ret'.quantity = ret.quantity)
        => /\ ret'.quantity - TargetOnHand = 0
           /\ ret'.status = "success"
           /\ UNCHANGED db]_vars

\* C13 witness: two calls have returned, the last a successful count of 10,
\* and the only audit entry is the adjustment to 10 of the first count.
C13_Witness ==
    /\ calls = 2 /\ mutations = 1
    /\ ret.tool = "reconcile_inventory" /\ ret.status = "success" /\ ret.quantity = 10
    /\ Len(audit_logs) = 1
    /\ audit_logs[1].action = "reconciliation"
    /\ audit_logs[1].quantity_after = 10
    /\ inventory_items[audit_logs[1].entity_id].quantity_on_hand = 10

\* C14: reconcile_inventory computes variance = counted - on-hand (0 on-hand
\* for a pair without record).  Zero variance: nothing changes.  Non-zero
\* variance: quantity_on_hand becomes the counted value, quantity_allocated
\* and every other record stay as they were, and exactly one audit entry is
\* appended with before = prior on-hand, after = counted, change = variance.
C14_ReconcileContract ==
    [][(Returned /\ ret'.tool = "reconcile_inventory" /\ Resolved)
        => LET id == TargetId
               after == TargetIdAfter
               counted == ret'.quantity
               variance == counted - TargetOnHand
               n == Len(audit_logs)
           IN  /\ ret'.status = "success"
               /\ variance = 0 => UNCHANGED db
               /\ variance # 0 =>
                      /\ Len(inventory_items') = Max2(Len(inventory_items), after)
                      /\ \A i \in Rows \ {id} : inventory_items'[i] = inventory_items[i]
                      /\ inventory_items'[after].quantity_on_hand = counted
                      /\ inventory_items'[after].quantity_allocated
                             = (IF id = 0 THEN 0 ELSE inventory_items[id].quantity_allocated)
                      /\ Len(audit_logs') = n + 1
                      /\ SubSeq(audit_logs', 1, n) = audit_logs
                      /\ audit_logs'[n + 1].action = "reconciliation"
                      /\ audit_logs'[n + 1].entity_id = after
                      /\ audit_logs'[n + 1].quantity_before = TargetOnHand
                      /\ audit_logs'[n + 1].quantity_after = counted
                      /\ audit_logs'[n + 1].quantity_change = variance]_vars

\* C14 witness: a count of 40 on the record with 50 on hand and 10 allocated
\* was booked as a variance of -10 and left the 10 allocated.
C14_Witness ==
    /\ ret.tool = "reconcile_inventory" /\ ret.status = "success" /\ ret.quantity = 40
    /\ Len(audit_logs) = 2
    /\ audit_logs[2].action = "reconciliation"
    /\ audit_logs[2].quantity_before = 50
    /\ audit_logs[2].quantity_after = 40
    /\ audit_logs[2].quantity_change = -10
    /\ inventory_items[1].quantity_on_hand = 40
    /\ inventory_items[1].quantity_allocated = 10

\* C15: of concurrent allocate_stock calls of equal size q against one record
\* no more succeed than fit in its availability: at most floor(available / q).
C15_NoMoreAllocationsThanFit ==
    \A q \in {x \in Quantities : x > 0} :
        (\A k \in AuditEntries(1, {"allocation"}) : audit_logs[k].quantity_change = q)
        => Cardinality(AuditEntries(1, {"allocation"}))
               <= SeededItems[1].quantity_available \div q

\* C16: no update of update_stock_quantity is lost: a record that no count has
\* adjusted holds its initial on-hand plus the deltas of all successful
\* update_stock_quantity calls on it, and the location's current_units has
\* moved by the deltas of all successful calls at the location.
C16_NoLostStockUpdate ==
    /\ \A i \in Rows :
          AuditEntries(i, {"reconciliation"}) = {}
          => inventory_items[i].quantity_on_hand
                 = (IF i <= Len(SeededItems) THEN SeededItems[i].quantity_on_hand ELSE 0)
                   + AuditChange(audit_logs, i, {"stock_update"})
    /\ \A code \in LocationCodes :
          locations[code].current_units
              = SumOnHand(SeededItems, code)
                + SumChanges({k \in 1..Len(audit_logs) :
                                 /\ audit_logs[k].action = "stock_update"
                                 /\ inventory_items[audit_logs[k].entity_id].location_id = code})

\* C17: update_stock_quantity on a pair without stock record creates the
\* record only when delta > 0; with delta <= 0 it creates no stock record and
\* no audit entry.
C17_RecordCreatedOnlyOnPositiveDelta ==
    [][(/\ Returned
        /\ ret'.tool = "update_stock_quantity"
        /\ Resolved
        /\ TargetId = 0
        /\ ret'.quantity <= 0)
        => (inventory_items' = inventory_items /\ audit_logs' = audit_logs)]_vars

\* C18: a ledger call whose SKU or location code does not resolve returns a
\* not-found error and changes nothing, and no call on a known product and
\* location (with or without stock there) returns that error.
C18_NotFoundIsDistinctAndChangesNothing ==
    [][Returned
        => /\ (ret'.sku \notin Skus \/ ret'.code \notin LocationCodes)
                  <=> (ret'.status \in {"product_not_found", "location_not_found"})
           /\ (ret'.status = "product_not_found") <=> (ret'.sku \notin Skus)
           /\ ret'.status \in {"product_not_found", "location_not_found"}
                  => UNCHANGED db]_vars

\* C18 witness: after a committed mutation a call named an unknown location
\* and got the not-found error.
C18_Witness ==
    /\ ret.code \notin LocationCodes
    /\ ret.status = "location_not_found"
    /\ mutations >= 1

\* ---------------------------------------------------------------------
\* Operations tools: the warehouse they read
\* ---------------------------------------------------------------------

\* A column that holds no value
None == "None"

\* Product rows: X an ordinary fast mover, Y needs cold storage, H is hazmat
products ==
    [X |-> [requires_cold_storage |-> FALSE, is_hazmat |-> FALSE, velocity_class |-> "A"],
     Y |-> [requires_cold_storage |-> TRUE, is_hazmat |-> FALSE, velocity_class |-> "B"],
     H |-> [requires_cold_storage |-> FALSE, is_hazmat |-> TRUE, velocity_class |-> "C"]]

\* A Location row
Location(zone, aisle, x, y, location_type, is_active, has_temperature_control) ==
    [zone |-> zone, aisle |-> aisle,
     x_coordinate |-> x, y_coordinate |-> y, z_coordinate |-> 0,
     location_type |-> location_type, is_active |-> is_active,
     has_temperature_control |-> has_temperature_control,
     capacity_units |-> capacity_units_default, current_units |-> 0]

\* A, B, C on one aisle, the shipping dock S alone in its zone
LineLayout ==
    [A |-> Location("A", "01", 0, 0, "storage", TRUE, FALSE),
     B |-> Location("A", "01", 10, 0, "storage", TRUE, FALSE),
     C |-> Location("A", "01", 20, 0, "storage", TRUE, FALSE),
     S |-> Location("S", "00", -5, 0, "shipping", TRUE, FALSE)]

\* Two aisles of one zone on the corners of a 16 x 12 rectangle, no dock
AisleLayout ==
    [A |-> Location("A", "01", 0, 0, "storage", TRUE, FALSE),
     B |-> Location("A", "02", 0, 12, "storage", TRUE, FALSE),
     C |-> Location("A", "02", 16, 12, "storage", TRUE, FALSE),
     S |-> Location("A", "01", 16, 0, "storage", TRUE, FALSE)]

\* The dock between A and B on their aisle, C closed
ClosedBinLayout ==
    [A |-> Location("A", "01", 0, 0, "storage", TRUE, FALSE),
     B |-> Location("A", "01", 20, 0, "storage", TRUE, FALSE),
     C |-> Location("A", "01", 30, 0, "storage", FALSE, FALSE),
     S |-> Location("A", "01", 10, 0, "shipping", TRUE, FALSE)]

\* One location per zone and kind: storage, cold room, hazmat cage
ZonedLayout ==
    [A |-> Location("A", "01", 0, 0, "storage", TRUE, FALSE),
     B |-> Location("C", "01", 10, 0, "storage", TRUE, FALSE),
     C |-> Location("D", "01", 20, 0, "cold_storage", TRUE, TRUE),
     S |-> Location("E", "01", 30, 0, "hazmat", TRUE, FALSE)]

\* A warehouse with every location closed
ClosedLayout ==
    [c \in {"A", "B", "C", "S"} |-> [LineLayout[c] EXCEPT !.is_active = FALSE]]

\* Storage away from the fast-mover zones, and a cold room whose cooling is
\* not registered
BackLayout ==
    [A |-> Location("C", "01", 0, 0, "storage", TRUE, FALSE),
     B |-> Location("D", "01", 10, 0, "storage", TRUE, FALSE),
     C |-> Location("D", "02", 20, 0, "cold_storage", TRUE, FALSE),
     S |-> Location("S", "00", -5, 0, "shipping", TRUE, FALSE)]

Layouts ==
    {LineLayout, AisleLayout, ClosedBinLayout, ZonedLayout, ClosedLayout, BackLayout}

\* An InventoryItem row with its lot and receipt time
Lot(sku, code, on_hand, allocated, lot_number, received_date) ==
    [product_id |-> sku, location_id |-> code,
     quantity_on_hand |-> on_hand, quantity_allocated |-> allocated,
     quantity_available |-> on_hand - allocated,
     lot_number |-> lot_number, received_date |-> received_date]

\* X at both ends of the aisle, Y in between
SpreadStock ==
    <<Lot("X", "A", 50, 0, "L1", 1), Lot("X", "C", 50, 0, "L2", 2),
      Lot("Y", "B", 30, 10, None, 1)>>

\* Three lots of X: the two oldest hold 30 each, the newest has 40 available
SplitStock ==
    <<Lot("X", "A", 30, 0, "L1", 1), Lot("X", "C", 30, 0, "L2", 2),
      Lot("X", "B", 60, 20, "L3", 3)>>

\* Lots received at the same time, and two lots of X in one location
TiedStock ==
    <<Lot("X", "A", 20, 0, "L1", 1), Lot("X", "B", 20, 0, "L1", 1),
      Lot("X", "A", 40, 0, "L2", 2), Lot("Y", "C", 90, 0, None, 2)>>

\* Two lots of X in each of two locations
CrowdedStock ==
    <<Lot("X", "A", 20, 0, "L1", 1), Lot("X", "A", 20, 0, "L2", 2),
      Lot("X", "B", 20, 0, "L1", 3), Lot("X", "B", 20, 0, "L2", 4)>>

\* Only Y in stock, more of it at B than at A
OtherStock ==
    <<Lot("Y", "A", 30, 0, None, 1), Lot("Y", "B", 60, 0, None, 2)>>

Stocks == {SpreadStock, SplitStock, TiedStock, CrowdedStock, OtherStock, <<>>}

\* Initial state of the operations tools: a layout and the stock in it
WarehouseInit ==
    /\ \E layout \in Layouts, stock \in Stocks :
          /\ inventory_items = stock
          /\ locations = [c \in DOMAIN layout |->
                             [layout[c] EXCEPT !.current_units = SumOnHand(stock, c)]]
    /\ audit_logs = <<>>
    /\ session = [s \in Sessions |-> Idle]
    /\ ret = [tool |-> "", status |-> ""]
    /\ calls = 0
    /\ mutations = 0

\* ---------------------------------------------------------------------
\* Operations tools: warehouse graph and distances
\* Lengths are carried doubled (suffix 2), which keeps the 1.5 penalty of an
\* aisle crossing integral; the layouts have integral pairwise distances.
\* ---------------------------------------------------------------------

\* math.sqrt on the squares the layouts produce
sqrt(n) == CHOOSE r \in 0..n : r * r <= n /\ (r + 1) * (r + 1) > n

calculate_distance(loc1, loc2) ==
    sqrt((loc1.x_coordinate - loc2.x_coordinate) * (loc1.x_coordinate - loc2.x_coordinate)
         + (loc1.y_coordinate - loc2.y_coordinate) * (loc1.y_coordinate - loc2.y_coordinate)
         + (loc1.z_coordinate - loc2.z_coordinate) * (loc1.z_coordinate - loc2.z_coordinate))

\* Distance below which two aisles of a zone are connected
ProximityThreshold == 20

\* Connecting close locations without looking at their zones
HasEdge_across_zones(loc1, loc2) ==
    \/ loc1.zone = loc2.zone /\ loc1.aisle = loc2.aisle
    \/ calculate_distance(loc1, loc2) < ProximityThreshold

\* The pairs of locations build_warehouse_graph connects
HasEdge(loc1, loc2) ==
    \/ loc1.zone = loc2.zone /\ loc1.aisle = loc2.aisle
    \/ loc1.zone = loc2.zone /\ calculate_distance(loc1, loc2) < ProximityThreshold

\* Edge weights with the aisle-crossing penalty on every edge
EdgeWeight2_always_penalised(loc1, loc2) ==
    3 * calculate_distance(loc1, loc2)

\* Doubled weight of an edge: the distance, times 1.5 across aisles
EdgeWeight2(loc1, loc2) ==
    IF loc1.zone = loc2.zone /\ loc1.aisle = loc2.aisle
    THEN 2 * calculate_distance(loc1, loc2)
    ELSE 3 * calculate_distance(loc1, loc2)

\* The graph over the active locations
build_warehouse_graph(locs) ==
    LET nodes == {c \in DOMAIN locs : locs[c].is_active}
    IN  [nodes |-> nodes,
         weight2 |-> [e \in {p \in nodes \X nodes :
                               p[1] # p[2] /\ HasEdge(locs[p[1]], locs[p[2]])}
                         |-> EdgeWeight2(locs[e[1]], locs[e[2]])]]

\* Outcomes of nx.shortest_path_length other than a length
NetworkXNoPath == -1
NodeNotFound == -2

Min(S) == CHOOSE x \in S : \A y \in S : x <= y

\* The simple paths of G from source to target, as node sequences
SimplePaths(G, source, target) ==
    {p \in UNION {[1..n -> G.nodes] : n \in 2..Cardinality(G.nodes)} :
        /\ p[1] = source
        /\ p[Len(p)] = target
        /\ \A i, j \in 1..Len(p) : p[i] = p[j] => i = j
        /\ \A i \in 1..(Len(p) - 1) : <<p[i], p[i + 1]>> \in DOMAIN G.weight2}

\* Doubled length of a path: the sum of its edge weights
RECURSIVE PathLength2(_, _)
PathLength2(G, p) ==
    IF Len(p) < 2 THEN 0
    ELSE G.weight2[<<p[1], p[2]>>] + PathLength2(G, Tail(p))

\* nx.shortest_path_length(G, source, target, weight='weight'), doubled
shortest_path_length(G, source, target) ==
    IF source \notin G.nodes THEN NodeNotFound
    ELSE IF source = target THEN 0
    ELSE IF target \notin G.nodes THEN NetworkXNoPath
    ELSE LET paths == SimplePaths(G, source, target)
         IN  IF paths = {} THEN NetworkXNoPath
             ELSE Min({PathLength2(G, p) : p \in paths})

\* ---------------------------------------------------------------------
\* Operations tools: generate_pick_route
\* ---------------------------------------------------------------------

\* Rows of product sku whose on-hand minus allocated covers quantity
Eligible(inv, sku, quantity) ==
    {i \in 1..Len(inv) :
        /\ inv[i].product_id = sku
        /\ inv[i].quantity_on_hand - inv[i].quantity_allocated >= quantity}

\* The query ordered newest first
FirstByReceivedDate_newest(inv, sku, quantity) ==
    {i \in Eligible(inv, sku, quantity) :
        \A j \in Eligible(inv, sku, quantity) :
            inv[i].received_date >= inv[j].received_date}

\* The rows the query ordered by received_date may return first: rows with
\* equal received_date come in an order the database chooses
FirstByReceivedDate(inv, sku, quantity) ==
    {i \in Eligible(inv, sku, quantity) :
        \A j \in Eligible(inv, sku, quantity) :
            inv[i].received_date <= inv[j].received_date}

\* first[k] is the row the query of demand line k returns, 0 for no row
FirstRows(items, inv) ==
    {first \in [1..Len(items) -> 0..Len(inv)] :
        \A k \in 1..Len(items) :
            LET rows == FirstByReceivedDate(inv, items[k].sku, items[k].quantity)
            IN  IF rows = {} THEN first[k] = 0 ELSE first[k] \in rows}

\* The loop over the demand lines from line k on, picks found so far in acc
RECURSIVE find_pick_locations(_, _, _, _, _)
find_pick_locations(items, inv, first, k, acc) ==
    IF k > Len(items) THEN [status |-> "ok", sku |-> None, pick_locations |-> acc]
    ELSE IF items[k].sku \notin DOMAIN products
    THEN [status |-> "product_not_found", sku |-> items[k].sku, pick_locations |-> <<>>]
    ELSE IF first[k] = 0
    THEN [status |-> "insufficient_stock", sku |-> items[k].sku, pick_locations |-> <<>>]
    ELSE find_pick_locations(items, inv, first, k + 1,
             Append(acc, [sku |-> items[k].sku,
                          quantity |-> items[k].quantity,
                          location |-> inv[first[k]].location_id,
                          lot_number |-> inv[first[k]].lot_number,
                          inventory |-> first[k]]))

\* The nodes shipping_locations[0] or list(G.nodes())[0] may be: node order
\* is the row order of a query without ORDER BY
StartLocations(G, locs) ==
    LET shipping_locations == {n \in G.nodes : locs[n].location_type = "shipping"}
    IN  IF shipping_locations # {} THEN shipping_locations ELSE G.nodes

\* location_to_pick[code]: the last pick location with that code
LocationToPick(pick_locations, code) ==
    pick_locations[CHOOSE k \in 1..Len(pick_locations) :
                       /\ pick_locations[k].location = code
                       /\ \A j \in (k + 1)..Len(pick_locations) :
                             pick_locations[j].location # code]

\* Doubled distance of one leg: graph path, else straight line
LegDistance2(G, locs, current, loc_code) ==
    LET distance == shortest_path_length(G, current, loc_code)
    IN  IF distance = NetworkXNoPath
        THEN 2 * calculate_distance(locs[current], locs[loc_code])
        ELSE distance

\* Sequence s without its element at position k
RemoveAt(s, k) == SubSeq(s, 1, k - 1) \o SubSeq(s, k + 1, Len(s))

\* Walking time at 2 m/s plus 30 s per pick, in whole minutes
estimated_time_minutes(total_distance2, picks) ==
    (total_distance2 + 120 * picks) \div 240

RECURSIVE SumQuantity(_)
SumQuantity(route) ==
    IF route = <<>> THEN 0 ELSE Head(route).quantity + SumQuantity(Tail(route))

\* The loop visiting the pick locations in the order of the demand lines
RECURSIVE build_route_in_demand_order(_, _, _, _, _, _, _, _)
build_route_in_demand_order(G, locs, pick_locations, start_location, remaining, current, total_distance2, route) ==
    IF current \notin G.nodes
    THEN [status |-> "exception", start_location |-> start_location,
          route |-> <<>>, total_distance2 |-> 0]
    ELSE IF remaining = <<>>
    THEN LET return_distance == shortest_path_length(G, current, start_location)
         IN  [status |-> "success", start_location |-> start_location,
              route |-> route,
              total_distance2 |-> IF return_distance = NetworkXNoPath
                                  THEN total_distance2
                                  ELSE total_distance2 + return_distance]
    ELSE LET distance(k) == LegDistance2(G, locs, current, remaining[k])
             nearest_distance == distance(1)
             k == 1
             nearest == remaining[k]
             pick_info == LocationToPick(pick_locations, nearest)
         IN  build_route_in_demand_order(G, locs, pick_locations, start_location,
                         RemoveAt(remaining, k), nearest,
                         total_distance2 + nearest_distance,
                         Append(route, [sequence |-> Len(route) + 1,
                                        location_code |-> nearest,
                                        sku |-> pick_info.sku,
                                        quantity |-> pick_info.quantity,
                                        lot_number |-> pick_info.lot_number]))

\* The nearest-neighbour loop and the return leg
RECURSIVE build_route(_, _, _, _, _, _, _, _)
build_route(G, locs, pick_locations, start_location, remaining, current, total_distance2, route) ==
    IF current \notin G.nodes
    THEN [status |-> "exception", start_location |-> start_location,
          route |-> <<>>, total_distance2 |-> 0]
    ELSE IF remaining = <<>>
    THEN LET return_distance == shortest_path_length(G, current, start_location)
         IN  [status |-> "success", start_location |-> start_location,
              route |-> route,
              total_distance2 |-> IF return_distance = NetworkXNoPath
                                  THEN total_distance2
                                  ELSE total_distance2 + return_distance]
    ELSE LET distance(k) == LegDistance2(G, locs, current, remaining[k])
             nearest_distance == Min({distance(k) : k \in 1..Len(remaining)})
             k == Min({j \in 1..Len(remaining) : distance(j) = nearest_distance})
             nearest == remaining[k]
             pick_info == LocationToPick(pick_locations, nearest)
         IN  build_route(G, locs, pick_locations, start_location,
                         RemoveAt(remaining, k), nearest,
                         total_distance2 + nearest_distance,
                         Append(route, [sequence |-> Len(route) + 1,
                                        location_code |-> nearest,
                                        sku |-> pick_info.sku,
                                        quantity |-> pick_info.quantity,
                                        lot_number |-> pick_info.lot_number]))

\* What a call that returns before routing reports
NoRoute(status, sku) ==
    [status |-> status, sku |-> sku, pick_locations |-> <<>>, start_location |-> None,
     route |-> <<>>, total_items |-> 0, total_units |-> 0,
     total_distance2 |-> 0, estimated_time_minutes |-> 0]

\* generate_pick_route(items) on the rows locs and inv, with the rows the
\* queries return first and the start node the node order yields
generate_pick_route(items, locs, inv, first, start_location) ==
    LET G == build_warehouse_graph(locs)
        found == find_pick_locations(items, inv, first, 1, <<>>)
        remaining == [k \in 1..Len(found.pick_locations) |->
                         found.pick_locations[k].location]
        built == build_route(G, locs, found.pick_locations, start_location,
                             remaining, start_location, 0, <<>>)
    IN  IF G.nodes = {} THEN NoRoute("no_locations", None)
        ELSE IF found.status # "ok" THEN NoRoute(found.status, found.sku)
        ELSE IF found.pick_locations = <<>> THEN NoRoute("no_items", None)
        ELSE IF built.status # "success"
        THEN [NoRoute(built.status, None) EXCEPT
                 !.pick_locations = found.pick_locations,
                 !.start_location = start_location]
        ELSE [status |-> "success", sku |-> None,
              pick_locations |-> found.pick_locations,
              start_location |-> start_location,
              route |-> built.route,
              total_items |-> Len(built.route),
              total_units |-> SumQuantity(built.route),
              total_distance2 |-> built.total_distance2,
              estimated_time_minutes |->
                  estimated_time_minutes(built.total_distance2, Len(built.route))]

\* Demand lines and demand lists of the route requests
MaxItems == 2
DemandSkus == {"X", "Y", "NOSKU"}
DemandQuantities == {20, 40, 50}
DemandLines == [sku : DemandSkus, quantity : DemandQuantities]
ItemLists == UNION {[1..n -> DemandLines] : n \in 0..MaxItems}

\* A generate_pick_route call that also allocates what it picked
GeneratePickRoute_allocating ==
    /\ ret.tool = ""
    /\ \E items \in ItemLists :
          LET G == build_warehouse_graph(locations)
          IN  \E first \in FirstRows(items, inventory_items) :
              \E start_location \in (IF G.nodes = {} THEN {None}
                                     ELSE StartLocations(G, locations)) :
                  LET result == generate_pick_route(items, locations, inventory_items,
                                                    first, start_location)
                      picked(i) == {k \in 1..Len(result.pick_locations) :
                                       result.pick_locations[k].inventory = i}
                  IN  /\ ret' = [tool |-> "generate_pick_route", items |-> items] @@ result
                      /\ inventory_items' =
                             [i \in 1..Len(inventory_items) |->
                                 IF picked(i) = {} THEN inventory_items[i]
                                 ELSE [inventory_items[i] EXCEPT
                                          !.quantity_allocated =
                                              @ + items[Min(picked(i))].quantity]]
    /\ UNCHANGED <<locations, audit_logs, session, calls, mutations>>

\* A generate_pick_route call: it reads, returns, and closes its session
\* without a commit
GeneratePickRoute ==
    /\ ret.tool = ""
    /\ \E items \in ItemLists :
          LET G == build_warehouse_graph(locations)
          IN  \E first \in FirstRows(items, inventory_items) :
              \E start_location \in (IF G.nodes = {} THEN {None}
                                     ELSE StartLocations(G, locations)) :
                  ret' = [tool |-> "generate_pick_route", items |-> items]
                         @@ generate_pick_route(items, locations, inventory_items,
                                                first, start_location)
    /\ UNCHANGED <<db, session, calls, mutations>>

\* ---------------------------------------------------------------------
\* Operations tools: get_optimal_putaway_location
\* ---------------------------------------------------------------------

required_type(product) ==
    IF product.requires_cold_storage THEN "cold_storage"
    ELSE IF product.is_hazmat THEN "hazmat"
    ELSE "storage"

\* The candidate query without its filter on the location type
CandidateLocations_any_type(locs, product, quantity) ==
    {c \in DOMAIN locs :
        /\ locs[c].is_active
        /\ locs[c].capacity_units - locs[c].current_units >= quantity}

\* The locations the candidate query selects
CandidateLocations(locs, product, quantity) ==
    {c \in DOMAIN locs :
        /\ locs[c].is_active
        /\ locs[c].location_type = required_type(product)
        /\ locs[c].capacity_units - locs[c].current_units >= quantity
        /\ product.requires_cold_storage => locs[c].has_temperature_control}

\* The rows the existing-inventory query selects
ExistingInventory(inv, sku) ==
    {i \in 1..Len(inv) : inv[i].product_id = sku /\ inv[i].quantity_on_hand > 0}

\* The orders in which a query without ORDER BY may return the rows S
Orders(S) ==
    {s \in [1..Cardinality(S) -> S] : \A i, j \in 1..Cardinality(S) : s[i] = s[j] => i = j}

velocity_zones(velocity_class) ==
    CASE velocity_class = "A" -> {"A", "B"}
      [] velocity_class = "B" -> {"B", "C"}
      [] velocity_class = "C" -> {"C", "D", "E"}
      [] OTHER -> {"C", "D"}

\* The loop over existing_inventory
RECURSIVE consolidation_suggestions(_, _, _, _, _)
consolidation_suggestions(existing_inventory, locs, inv, quantity, lot_number) ==
    IF existing_inventory = <<>> THEN <<>>
    ELSE LET row == inv[Head(existing_inventory)]
             loc == locs[row.location_id]
             available_capacity == loc.capacity_units - loc.current_units
             rest == consolidation_suggestions(Tail(existing_inventory), locs, inv,
                                               quantity, lot_number)
         IN  IF available_capacity >= quantity
             THEN <<[location_code |-> row.location_id,
                     available_capacity |-> available_capacity,
                     existing_quantity |-> row.quantity_on_hand,
                     consolidation |-> TRUE,
                     same_lot |-> row.lot_number = lot_number,
                     priority |-> IF row.lot_number = lot_number THEN 1 ELSE 2]>> \o rest
             ELSE rest

\* The loop over the candidate locations not suggested yet
RECURSIVE velocity_suggestions(_, _, _, _)
velocity_suggestions(candidates, locs, preferred_zones, suggested) ==
    IF candidates = <<>> THEN <<>>
    ELSE LET code == Head(candidates)
             rest == velocity_suggestions(Tail(candidates), locs, preferred_zones, suggested)
         IN  IF code \notin suggested
             THEN <<[location_code |-> code,
                     available_capacity |->
                         locs[code].capacity_units - locs[code].current_units,
                     existing_quantity |-> 0,
                     consolidation |-> FALSE,
                     same_lot |-> FALSE,
                     priority |-> IF locs[code].zone \in preferred_zones THEN 3 ELSE 4]>>
                  \o rest
             ELSE rest

\* Sort key (priority, available_capacity): fullest location first
SortsBefore_ascending_capacity(a, b) ==
    \/ a.priority < b.priority
    \/ a.priority = b.priority /\ a.available_capacity < b.available_capacity

\* Sort key (priority, -available_capacity): a sorts strictly before b
SortsBefore(a, b) ==
    \/ a.priority < b.priority
    \/ a.priority = b.priority /\ a.available_capacity > b.available_capacity

\* list.sort is stable: x goes behind the elements that do not sort after it
RECURSIVE SortedInsert(_, _)
SortedInsert(sorted, x) ==
    IF sorted = <<>> THEN <<x>>
    ELSE IF SortsBefore(x, Head(sorted)) THEN <<x>> \o sorted
    ELSE <<Head(sorted)>> \o SortedInsert(Tail(sorted), x)

RECURSIVE SortSuggestions(_)
SortSuggestions(suggestions) ==
    IF suggestions = <<>> THEN <<>>
    ELSE SortedInsert(SortSuggestions(SubSeq(suggestions, 1, Len(suggestions) - 1)),
                      suggestions[Len(suggestions)])

\* Number of suggestions returned
TopSuggestions == 5

\* get_optimal_putaway_location(sku, quantity, lot_number) on the rows locs and
\* inv, with the row orders of its two queries
get_optimal_putaway_location(sku, quantity, lot_number, locs, inv, candidates, existing_inventory) ==
    IF sku \notin DOMAIN products
    THEN [status |-> "product_not_found", required_location_type |-> None,
          suggestions |-> <<>>]
    ELSE IF candidates = <<>>
    THEN [status |-> "no_suitable_location",
          required_location_type |-> required_type(products[sku]),
          suggestions |-> <<>>]
    ELSE LET consolidation == consolidation_suggestions(existing_inventory, locs, inv,
                                                        quantity, lot_number)
             suggested == {consolidation[k].location_code : k \in 1..Len(consolidation)}
             suggestions ==
                 SortSuggestions(
                     consolidation
                     \o velocity_suggestions(candidates, locs,
                            velocity_zones(products[sku].velocity_class), suggested))
         IN  [status |-> "success",
              required_location_type |-> required_type(products[sku]),
              suggestions |-> SubSeq(suggestions, 1,
                                     IF Len(suggestions) < TopSuggestions
                                     THEN Len(suggestions) ELSE TopSuggestions)]

PutawaySkus == {"X", "Y", "H", "NOSKU"}
PutawayQuantities == {10, 60}
PutawayLots == {None, "L1"}

\* A get_optimal_putaway_location call: it reads, returns, and closes its
\* session without a commit
GetOptimalPutawayLocation ==
    /\ ret.tool = ""
    /\ \E sku \in PutawaySkus, quantity \in PutawayQuantities, lot_number \in PutawayLots :
       \E candidates \in (IF sku \in DOMAIN products
                           THEN Orders(CandidateLocations(locations, products[sku], quantity))
                           ELSE {<<>>}) :
       \E existing_inventory \in Orders(ExistingInventory(inventory_items, sku)) :
           ret' = [tool |-> "get_optimal_putaway_location", sku |-> sku,
                   quantity |-> quantity, lot_number |-> lot_number]
                  @@ get_optimal_putaway_location(sku, quantity, lot_number,
                         locations, inventory_items, candidates, existing_inventory)
    /\ UNCHANGED <<db, session, calls, mutations>>

\* ---------------------------------------------------------------------
\* Operations tools: warehouse layout and utilization
\* ---------------------------------------------------------------------

\* Every location row, closed ones included
ActiveLocations_with_closed(locs) == DOMAIN locs

\* The rows of the is_active query
ActiveLocations(locs) == {c \in DOMAIN locs : locs[c].is_active}

\* The order of the zone and aisle names as strings
ZoneRank == [A |-> 1, B |-> 2, C |-> 3, D |-> 4, E |-> 5, S |-> 6]
AisleRank == [a \in {"00", "01", "02"} |-> CASE a = "00" -> 0 [] a = "01" -> 1 [] a = "02" -> 2]

\* sorted(): the members of S by ascending rank
RECURSIVE Sorted(_, _)
Sorted(S, rank) ==
    IF S = {} THEN <<>>
    ELSE LET m == CHOOSE x \in S : \A y \in S : rank[x] <= rank[y]
         IN  <<m>> \o Sorted(S \ {m}, rank)

\* round(used / total * 100, 2), carried in hundredths of a percent
utilization_percent(used, total) ==
    IF total > 0 THEN (2 * 10000 * used + total) \div (2 * total) ELSE 0

\* The loop over the location rows that fills the dictionary zones
RECURSIVE aggregate_zones(_, _, _)
aggregate_zones(locs, rows, zones) ==
    IF rows = <<>> THEN zones
    ELSE LET loc == locs[Head(rows)]
             known == IF loc.zone \in DOMAIN zones THEN zones[loc.zone]
                      ELSE [zone |-> loc.zone, location_count |-> 0,
                            total_capacity |-> 0, used_capacity |-> 0,
                            aisles |-> {}, location_types |-> {}]
             counted == [known EXCEPT !.location_count = @ + 1,
                                      !.total_capacity = @ + loc.capacity_units,
                                      !.used_capacity = @ + loc.current_units,
                                      !.aisles = @ \cup {loc.aisle},
                                      !.location_types = @ \cup {loc.location_type}]
         IN  aggregate_zones(locs, Tail(rows),
                 [z \in DOMAIN zones \cup {loc.zone} |->
                     IF z = loc.zone THEN counted ELSE zones[z]])

\* sum() of a column over the rows
RECURSIVE SumColumn(_, _, _)
SumColumn(locs, rows, column) ==
    IF rows = <<>> THEN 0
    ELSE locs[Head(rows)][column] + SumColumn(locs, Tail(rows), column)

\* get_warehouse_layout over the rows in the order the query returned them;
\* location_types, a list made of a set, is carried as the set
get_warehouse_layout(locs, rows) ==
    IF rows = <<>> THEN [status |-> "no_locations"]
    ELSE LET zones == aggregate_zones(locs, rows, <<>>)
             order == Sorted(DOMAIN zones, ZoneRank)
             total_capacity == SumColumn(locs, rows, "capacity_units")
             total_used == SumColumn(locs, rows, "current_units")
         IN  [status |-> "success",
              total_locations |-> Len(rows),
              total_capacity_units |-> total_capacity,
              total_used_units |-> total_used,
              overall_utilization_percent |-> utilization_percent(total_used, total_capacity),
              zones |-> [k \in 1..Len(order) |->
                  [zone |-> zones[order[k]].zone,
                   location_count |-> zones[order[k]].location_count,
                   total_capacity |-> zones[order[k]].total_capacity,
                   used_capacity |-> zones[order[k]].used_capacity,
                   utilization_percent |-> utilization_percent(zones[order[k]].used_capacity,
                                                               zones[order[k]].total_capacity),
                   aisles |-> Sorted(zones[order[k]].aisles, AisleRank),
                   location_types |-> zones[order[k]].location_types]]]

\* A get_warehouse_layout call: it reads the locations and closes its session
GetWarehouseLayout ==
    /\ ret.tool = ""
    /\ \E rows \in Orders(ActiveLocations(locations)) :
           ret' = [tool |-> "get_warehouse_layout"] @@ get_warehouse_layout(locations, rows)
    /\ UNCHANGED <<db, session, calls, mutations>>

\* ---------------------------------------------------------------------
\* Replenishment tools: days of cover
\* Floats are carried as fractions num / den with den >= 0; 1 / 0 is inf.
\* ---------------------------------------------------------------------

\* Product.reorder_point of the product rows
reorder_point == [X |-> 20, Y |-> 50, H |-> 10]

ZeroDivisionError == [num |-> 0, den |-> 0]
inf == [num |-> 1, den |-> 0]
Float(n) == [num |-> n, den |-> 1]

\* a / b
Divide(a, b) ==
    IF b = 0 THEN ZeroDivisionError
    ELSE IF b < 0 THEN [num |-> -a, den |-> -b]
    ELSE [num |-> a, den |-> b]

\* x < y and x <= y on floats
Less(x, y) == x.num * y.den < y.num * x.den
LessEq(x, y) == x = y \/ Less(x, y)

\* round(x, 1) of a finite float, in tenths
RoundTenths(x) == (20 * x.num + x.den) \div (2 * x.den)

\* The value reported for a number of days: "unlimited" for inf
ReportedDays(x) ==
    IF x = inf THEN [unlimited |-> TRUE, tenths |-> 0]
    ELSE [unlimited |-> FALSE, tenths |-> RoundTenths(x)]

\* SUM of a quantity column over the rows of a product (or 0)
RECURSIVE SumOfProduct(_, _, _)
SumOfProduct(inv, sku, column) ==
    IF inv = <<>> THEN 0
    ELSE (IF Head(inv).product_id = sku THEN Head(inv)[column] ELSE 0)
         + SumOfProduct(Tail(inv), sku, column)

\* A status chain that computes the critical threshold before looking at the demand
cover_status_division_first(days_of_cover, sku, average_daily_demand) ==
    LET threshold == Divide(reorder_point[sku], average_daily_demand)
    IN  IF LessEq(days_of_cover, Float(0)) THEN "out_of_stock"
        ELSE IF threshold = ZeroDivisionError THEN "ZeroDivisionError"
        ELSE IF average_daily_demand > 0 /\ Less(days_of_cover, threshold) THEN "critical"
        ELSE IF Less(days_of_cover, Float(14)) THEN "low"
        ELSE "healthy"

\* The if / elif chain that determines the status; the conditional
\* expression `A if average_daily_demand > 0 else 0` evaluates its test first
cover_status(days_of_cover, sku, average_daily_demand) ==
    IF LessEq(days_of_cover, Float(0)) THEN "out_of_stock"
    ELSE IF average_daily_demand > 0
    THEN LET threshold == Divide(reorder_point[sku], average_daily_demand)
         IN  IF threshold = ZeroDivisionError THEN "ZeroDivisionError"
             ELSE IF Less(days_of_cover, threshold) THEN "critical"
             ELSE IF Less(days_of_cover, Float(14)) THEN "low"
             ELSE "healthy"
    ELSE IF Less(days_of_cover, Float(14)) THEN "low"
    ELSE "healthy"

\* calculate_days_of_cover on the rows inv, with the open purchase order
\* quantity the query returned; the status of the result is cover_status
calculate_days_of_cover(sku, average_daily_demand, inv, incoming_qty) ==
    IF sku \notin DOMAIN products THEN [status |-> "product_not_found"]
    ELSE LET total_stock == SumOfProduct(inv, sku, "quantity_on_hand")
             total_allocated == SumOfProduct(inv, sku, "quantity_allocated")
             available_stock == total_stock - total_allocated
             days_of_cover == IF average_daily_demand <= 0 THEN inf
                              ELSE Divide(available_stock, average_daily_demand)
             days_with_incoming == IF average_daily_demand <= 0 THEN inf
                                   ELSE Divide(available_stock + incoming_qty,
                                               average_daily_demand)
             status == cover_status(days_of_cover, sku, average_daily_demand)
         IN  IF ZeroDivisionError \in {days_of_cover, days_with_incoming}
                \/ status = "ZeroDivisionError"
             THEN [status |-> "exception"]
             ELSE [status |-> "success",
                   current_stock |-> total_stock,
                   allocated_stock |-> total_allocated,
                   available_stock |-> available_stock,
                   incoming_po_quantity |-> incoming_qty,
                   days_of_cover |-> ReportedDays(days_of_cover),
                   days_of_cover_with_incoming |-> ReportedDays(days_with_incoming),
                   cover_status |-> status,
                   reorder_point |-> reorder_point[sku]]

DailyDemands == {-1, 0, 1, 10}
IncomingQuantities == {0, 20}

\* A calculate_days_of_cover call: it reads and closes its session
CalculateDaysOfCover ==
    /\ ret.tool = ""
    /\ \E sku \in PutawaySkus, average_daily_demand \in DailyDemands :
       \E incoming_qty \in IncomingQuantities :
           ret' = [tool |-> "calculate_days_of_cover", sku |-> sku,
                   average_daily_demand |-> average_daily_demand]
                  @@ calculate_days_of_cover(sku, average_daily_demand,
                                             inventory_items, incoming_qty)
    /\ UNCHANGED <<db, session, calls, mutations>>

\* The caller takes the result; the next call starts from a fresh request
TakeResult ==
    /\ ret.tool # ""
    /\ ret' = [tool |-> "", status |-> ""]
    /\ UNCHANGED <<db, session, calls, mutations>>

WarehouseNext ==
    \/ GeneratePickRoute
    \/ GetOptimalPutawayLocation
    \/ GetWarehouseLayout
    \/ CalculateDaysOfCover
    \/ TakeResult

WarehouseSpec == WarehouseInit /\ [][WarehouseNext]_vars

\* ---------------------------------------------------------------------
\* RouteLoopSpec: generate_pick_route with its while loop taken one
\* iteration at a time.  While the loop runs, ret holds the local variables
\* of the call under status "routing".
\* ---------------------------------------------------------------------

\* A scan that starts from nearest_distance = 0 instead of float('inf')
RECURSIVE nearest_unvisited_from_zero(_, _, _, _, _)
nearest_unvisited_from_zero(G, locs, current, remaining, best) ==
    IF remaining = <<>> THEN best
    ELSE LET distance == LegDistance2(G, locs, current, Head(remaining))
         IN  nearest_unvisited_from_zero(G, locs, current, Tail(remaining),
                 IF distance < best.nearest_distance
                 THEN [nearest |-> Head(remaining), nearest_distance |-> distance]
                 ELSE best)

\* The for loop over remaining: best is (nearest, nearest_distance), with
\* nearest = None standing for nearest_distance = float('inf')
RECURSIVE nearest_unvisited(_, _, _, _, _)
nearest_unvisited(G, locs, current, remaining, best) ==
    IF remaining = <<>> THEN best
    ELSE LET distance == LegDistance2(G, locs, current, Head(remaining))
         IN  nearest_unvisited(G, locs, current, Tail(remaining),
                 IF best.nearest = None \/ distance < best.nearest_distance
                 THEN [nearest |-> Head(remaining), nearest_distance |-> distance]
                 ELSE best)

\* list.remove(x): without the first occurrence of x
Remove(s, x) == RemoveAt(s, Min({k \in 1..Len(s) : s[k] = x}))

\* The call up to the while loop: an early return, or the loop's variables
StartRoute ==
    /\ ret.tool = ""
    /\ \E items \in ItemLists :
          LET G == build_warehouse_graph(locations)
          IN  \E first \in FirstRows(items, inventory_items) :
              \E start_location \in (IF G.nodes = {} THEN {None}
                                     ELSE StartLocations(G, locations)) :
                  LET found == find_pick_locations(items, inventory_items, first, 1, <<>>)
                  IN  ret' = [tool |-> "generate_pick_route", items |-> items, iterations |-> 0]
                             @@ (IF G.nodes = {} THEN NoRoute("no_locations", None)
                                 ELSE IF found.status # "ok"
                                 THEN NoRoute(found.status, found.sku)
                                 ELSE IF found.pick_locations = <<>>
                                 THEN NoRoute("no_items", None)
                                 ELSE [NoRoute("routing", None) EXCEPT
                                          !.pick_locations = found.pick_locations,
                                          !.start_location = start_location])
                             @@ [remaining |-> [k \in 1..Len(found.pick_locations) |->
                                                   found.pick_locations[k].location],
                                 current |-> start_location]
    /\ UNCHANGED <<db, session, calls, mutations>>

\* One iteration of `while remaining:`; nx.NodeNotFound leaves the call
RouteIteration ==
    /\ ret.tool = "generate_pick_route"
    /\ ret.status = "routing"
    /\ ret.remaining # <<>>
    /\ ret.iterations <= Len(ret.items)
    /\ LET G == build_warehouse_graph(locations)
           best == nearest_unvisited(G, locations, ret.current, ret.remaining,
                                     [nearest |-> None, nearest_distance |-> 0])
           pick_info == LocationToPick(ret.pick_locations, best.nearest)
       IN  ret' = IF ret.current \notin G.nodes
                  THEN [ret EXCEPT !.status = "exception", !.route = <<>>,
                                   !.total_distance2 = 0]
                  ELSE IF best.nearest = None
                  THEN [ret EXCEPT !.iterations = @ + 1]
                  ELSE [ret EXCEPT
                           !.iterations = @ + 1,
                           !.remaining = Remove(@, best.nearest),
                           !.total_distance2 = @ + best.nearest_distance,
                           !.route = Append(@, [sequence |-> Len(@) + 1,
                                                location_code |-> best.nearest,
                                                sku |-> pick_info.sku,
                                                quantity |-> pick_info.quantity,
                                                lot_number |-> pick_info.lot_number]),
                           !.current = best.nearest]
    /\ UNCHANGED <<db, session, calls, mutations>>

\* After the loop: the return leg, the totals and the return
FinishRoute ==
    /\ ret.tool = "generate_pick_route"
    /\ ret.status = "routing"
    /\ ret.remaining = <<>>
    /\ LET G == build_warehouse_graph(locations)
           return_distance == shortest_path_length(G, ret.current, ret.start_location)
           total_distance2 == IF return_distance = NetworkXNoPath
                              THEN ret.total_distance2
                              ELSE ret.total_distance2 + return_distance
       IN  ret' = IF ret.current \notin G.nodes
                  THEN [ret EXCEPT !.status = "exception", !.route = <<>>,
                                   !.total_distance2 = 0]
                  ELSE [ret EXCEPT
                           !.status = "success",
                           !.total_items = Len(ret.route),
                           !.total_units = SumQuantity(ret.route),
                           !.total_distance2 = total_distance2,
                           !.estimated_time_minutes =
                               estimated_time_minutes(total_distance2, Len(ret.route))]
    /\ UNCHANGED <<db, session, calls, mutations>>

\* The caller takes the result of a call that has returned
TakeRoute ==
    /\ ret.tool # ""
    /\ ret.status # "routing"
    /\ ret' = [tool |-> "", status |-> ""]
    /\ UNCHANGED <<db, session, calls, mutations>>

RouteLoopNext == StartRoute \/ RouteIteration \/ FinishRoute \/ TakeRoute

RouteLoopSpec == WarehouseInit /\ [][RouteLoopNext]_vars

\* ---------------------------------------------------------------------
\* Properties of the operations tools
\* ---------------------------------------------------------------------

OperationsTools == {"generate_pick_route", "get_optimal_putaway_location"}

\* C19: generate_pick_route and get_optimal_putaway_location are read-only:
\* a call of either, whatever it returns, leaves every stock record, every
\* location's current_units and the audit log as they were.
C19_RouteAndPutawayReadOnly ==
    [][ret'.tool \in OperationsTools => UNCHANGED db]_vars

\* C19 witness: a route over two picks was returned from a warehouse with
\* unallocated stock.
C19_Witness ==
    /\ ret.tool = "generate_pick_route"
    /\ ret.status = "success"
    /\ Len(ret.route) = 2
    /\ inventory_items = SpreadStock
    /\ audit_logs = <<>>

\* Stock rows of product sku that alone cover quantity
Covering(sku, quantity) ==
    {i \in Rows :
        /\ inventory_items[i].product_id = sku
        /\ inventory_items[i].quantity_on_hand - inventory_items[i].quantity_allocated
               >= quantity}

\* C20: for each demand line generate_pick_route picks one stock record of
\* the product whose on-hand minus allocated covers the line's quantity and
\* whose received_date is the earliest among the records that do; the first
\* line of a known product that no single record covers fails the call with
\* the insufficient-stock error for that SKU, whatever the records hold
\* together.
C20_FifoSingleRecordOrInsufficient ==
    (ret.tool = "generate_pick_route" /\ ret.status # "no_locations")
    => LET items == ret.items
           unfilled == {k \in 1..Len(items) :
                           \/ items[k].sku \notin DOMAIN products
                           \/ Covering(items[k].sku, items[k].quantity) = {}}
       IN  IF unfilled # {}
           THEN LET k == Min(unfilled)
                IN  /\ ret.sku = items[k].sku
                    /\ ret.status = (IF items[k].sku \in DOMAIN products
                                     THEN "insufficient_stock" ELSE "product_not_found")
           ELSE /\ ret.status \notin {"insufficient_stock", "product_not_found"}
                /\ Len(ret.pick_locations) = Len(items)
                /\ \A k \in 1..Len(items) :
                      LET picked == ret.pick_locations[k].inventory
                      IN  /\ picked \in Covering(items[k].sku, items[k].quantity)
                          /\ ret.pick_locations[k].location
                                 = inventory_items[picked].location_id
                          /\ \A j \in Covering(items[k].sku, items[k].quantity) :
                                inventory_items[picked].received_date
                                    <= inventory_items[j].received_date

\* C20 witness: 50 of X were demanded from three lots that hold 30, 30 and
\* 40 available, and the call failed for X.
C20_Witness ==
    /\ ret.tool = "generate_pick_route"
    /\ ret.items = <<[sku |-> "X", quantity |-> 50]>>
    /\ ret.status = "insufficient_stock"
    /\ ret.sku = "X"
    /\ inventory_items = SplitStock

\* The graph of the warehouse in the current state
Graph == build_warehouse_graph(locations)

\* Doubled distance from a to b: the length of the shortest graph path when
\* there is one, the straight line otherwise
Distance2(a, b) ==
    LET length == shortest_path_length(Graph, a, b)
    IN  IF length = NetworkXNoPath
        THEN 2 * calculate_distance(locations[a], locations[b])
        ELSE length

\* Where the picker stands after i steps of the returned route
Position(i) == IF i = 0 THEN ret.start_location ELSE ret.route[i].location_code

\* The pick locations not yet visited after i steps, each as often as it is
\* required
RemainingAfter(i) ==
    {c \in DOMAIN locations :
        Cardinality({k \in 1..Len(ret.pick_locations) : ret.pick_locations[k].location = c})
            > Cardinality({j \in 1..i : ret.route[j].location_code = c})}

\* Doubled length of the first i steps of the returned route
RECURSIVE StepsDistance2(_)
StepsDistance2(i) ==
    IF i = 0 THEN 0 ELSE StepsDistance2(i - 1) + Distance2(Position(i - 1), Position(i))

\* Doubled length of the way back to the start; 0 without a graph path
ReturnDistance2 ==
    LET length == shortest_path_length(Graph, Position(Len(ret.route)), ret.start_location)
    IN  IF length = NetworkXNoPath THEN 0 ELSE length

\* A generate_pick_route call found a stock record for every demand line
AllLinesResolved ==
    /\ ret.tool = "generate_pick_route"
    /\ ret.status \notin {"no_locations", "product_not_found", "insufficient_stock", "no_items"}

\* C21: in a returned route every step goes to a location that, among the
\* required locations not yet visited, has minimum distance from the current
\* position (graph shortest path, straight line without a path), and the
\* distances of the steps are added to the total.
C21_EveryStepGoesToNearest ==
    (ret.tool = "generate_pick_route" /\ ret.status = "success")
    => /\ Len(ret.route) = Len(ret.pick_locations)
       /\ \A i \in 1..Len(ret.route) :
             /\ Position(i) \in RemainingAfter(i - 1)
             /\ \A c \in RemainingAfter(i - 1) :
                   Distance2(Position(i - 1), Position(i)) <= Distance2(Position(i - 1), c)
       /\ ret.total_distance2 - ReturnDistance2 = StepsDistance2(Len(ret.route))

\* C21 witness: the demand named the pick at B before the pick at A, and the
\* route from the dock goes to the nearer A first (5, straight line) and then
\* to B (10, along the aisle).
C21_Witness ==
    /\ ret.tool = "generate_pick_route"
    /\ ret.status = "success"
    /\ ret.start_location = "S"
    /\ Len(ret.route) = 2
    /\ ret.pick_locations[1].location = "B"
    /\ ret.pick_locations[2].location = "A"
    /\ ret.route[1].location_code = "A"
    /\ ret.route[2].location_code = "B"
    /\ ret.total_distance2 = 30

\* The layout of the current state, usage counters aside
LayoutIs(layout) ==
    \A c \in DOMAIN locations : [locations[c] EXCEPT !.current_units = 0] = layout[c]

\* C22: with A(0,0), B(10,0), C(20,0) on one aisle and the dock S(-5,0) in a
\* zone of its own, picks at A and C give the route A then C, of length
\* 5 (S to A, straight line) + 20 (A to C, graph path).
C22_LineScenario ==
    (/\ AllLinesResolved
     /\ LayoutIs(LineLayout)
     /\ {ret.pick_locations[k].location : k \in 1..Len(ret.pick_locations)} = {"A", "C"}
     /\ Len(ret.pick_locations) = 2)
    => /\ ret.status = "success"
       /\ ret.start_location = "S"
       /\ shortest_path_length(Graph, "S", "A") = NetworkXNoPath
       /\ shortest_path_length(Graph, "A", "C") = 2 * 20
       /\ [i \in 1..2 |-> ret.route[i].location_code] = <<"A", "C">>
       /\ ret.total_distance2 = 2 * (5 + 20)

\* C22 witness: the demand named the pick at C first, and the route is A, C.
C22_Witness ==
    /\ LayoutIs(LineLayout)
    /\ ret.tool = "generate_pick_route"
    /\ ret.status = "success"
    /\ Len(ret.pick_locations) = 2
    /\ ret.pick_locations[1].location = "C"
    /\ ret.pick_locations[2].location = "A"
    /\ ret.route[1].location_code = "A"
    /\ ret.route[2].location_code = "C"

\* C23: a generate_pick_route call whose demand lines all resolve to a stock
\* record returns a route, wherever those records lie.
C23_ResolvedDemandGetsRoute ==
    AllLinesResolved => ret.status = "success"

\* C24: once every required location is visited the route succeeds and its
\* total distance is the sum of the step distances plus the graph distance
\* from the last location back to the start, or the sum alone when no graph
\* path leads back.
C24_TotalIncludesReturnLeg ==
    AllLinesResolved
    => /\ ret.status = "success"
       /\ ret.total_distance2 = StepsDistance2(Len(ret.route)) + ReturnDistance2

\* Lexicographic rank of the location codes
CodeRank == [A |-> 1, B |-> 2, C |-> 3, S |-> 4]

LowestCode(codes) == CHOOSE c \in codes : \A d \in codes : CodeRank[c] <= CodeRank[d]

\* C25: the start of a route is an active shipping location when there is
\* one, and otherwise the graph node with the lowest location code, whatever
\* order the locations are stored or returned in.
C25_AnchorIsDockOrLowestCode ==
    (ret.tool = "generate_pick_route" /\ ret.start_location # None)
    => LET docks == {c \in Graph.nodes : locations[c].location_type = "shipping"}
       IN  IF docks # {} THEN ret.start_location \in docks
           ELSE ret.start_location = LowestCode(Graph.nodes)

\* items2 holds the demand lines of items1, in any order
SameDemands(items1, items2) ==
    /\ Len(items1) = Len(items2)
    /\ \E p \in Orders(1..Len(items1)) : \A k \in 1..Len(items1) : items2[k] = items1[p[k]]

\* The location codes of a route in visiting order
VisitingOrder(route) == [i \in 1..Len(route) |-> route[i].location_code]

\* The stock rows picked, whatever the order of the lines
PickedRows(pick_locations) ==
    {<<pick_locations[k].sku, pick_locations[k].quantity, pick_locations[k].inventory>> :
        k \in 1..Len(pick_locations)}

\* C26: a second run of generate_pick_route over the same set of demands on
\* the same warehouse state, from the same start and with the same stock
\* rows picked, visits the locations in the same order as the first, also
\* when candidates are equidistant.
C26_SameDemandsSameVisitingOrder ==
    (ret.tool = "generate_pick_route" /\ ret.status = "success")
    => \A items2 \in {l \in ItemLists : SameDemands(ret.items, l)} :
       \A first2 \in FirstRows(items2, inventory_items) :
           LET second == generate_pick_route(items2, locations, inventory_items,
                                             first2, ret.start_location)
           IN  (/\ second.status = "success"
                /\ PickedRows(second.pick_locations) = PickedRows(ret.pick_locations))
               => VisitingOrder(second.route) = VisitingOrder(ret.route)

\* C27: the graph a generate_pick_route call builds has exactly the active
\* locations as nodes; two distinct nodes are joined iff they share zone and
\* aisle (weight: their distance) or share the zone, differ in aisle and are
\* less than 20 apart (weight: 1.5 times their distance); edges are
\* undirected and never join two zones.
C27_GraphOfActiveLocations ==
    ret.tool = "generate_pick_route"
    => /\ Graph.nodes = {c \in DOMAIN locations : locations[c].is_active}
       /\ DOMAIN Graph.weight2 \subseteq Graph.nodes \X Graph.nodes
       /\ \A a, b \in Graph.nodes :
             LET la == locations[a]
                 lb == locations[b]
                 joined == <<a, b>> \in DOMAIN Graph.weight2
             IN  /\ joined <=> <<b, a>> \in DOMAIN Graph.weight2
                 /\ joined <=>
                        /\ a # b
                        /\ la.zone = lb.zone
                        /\ la.aisle = lb.aisle \/ calculate_distance(la, lb) < 20
                 /\ joined =>
                        /\ Graph.weight2[<<a, b>>] = Graph.weight2[<<b, a>>]
                        /\ Graph.weight2[<<a, b>>] =
                               (IF la.aisle = lb.aisle THEN 2 ELSE 3) * calculate_distance(la, lb)

\* C27 witness: a route was computed on the two-aisle layout, where A and B
\* are 12 apart across aisles (weight 18), A and S share an aisle (weight 16)
\* and A and C, exactly 20 apart across aisles, are not joined.
C27_Witness ==
    /\ ret.tool = "generate_pick_route"
    /\ LayoutIs(AisleLayout)
    /\ Graph.weight2[<<"A", "B">>] = 2 * 18
    /\ Graph.weight2[<<"A", "S">>] = 2 * 16
    /\ <<"A", "C">> \notin DOMAIN Graph.weight2

\* The locations that suit a putaway of quantity units of product sku:
\* active, of the product's type (cold rooms with temperature control), with
\* room for the quantity
Suitable(sku, quantity) ==
    {c \in DOMAIN locations :
        /\ locations[c].is_active
        /\ locations[c].location_type =
               (IF products[sku].requires_cold_storage THEN "cold_storage"
                ELSE IF products[sku].is_hazmat THEN "hazmat"
                ELSE "storage")
        /\ products[sku].requires_cold_storage => locations[c].has_temperature_control
        /\ locations[c].capacity_units - locations[c].current_units >= quantity}

\* C28: every location get_optimal_putaway_location suggests, for
\* consolidation or not, is active, of the type the product requires (with
\* temperature control for a cold-storage product) and has room for the
\* requested quantity.
C28_SuggestionsAreSuitable ==
    (ret.tool = "get_optimal_putaway_location" /\ ret.status = "success")
    => \A k \in 1..Len(ret.suggestions) :
          ret.suggestions[k].location_code \in Suitable(ret.sku, ret.quantity)

\* C29: for a known product get_optimal_putaway_location returns the
\* no-suitable-location error, without suggestions, exactly when no active
\* location of the required type has room for the quantity, whatever room
\* locations of other types have.
C29_NoSuitableLocationError ==
    (ret.tool = "get_optimal_putaway_location" /\ ret.sku \in DOMAIN products)
    => /\ (ret.status = "no_suitable_location") <=> (Suitable(ret.sku, ret.quantity) = {})
       /\ ret.status = "no_suitable_location" => ret.suggestions = <<>>
       /\ ret.status \in {"no_suitable_location", "success"}

\* C29 witness: the cold-storage product Y was refused in a warehouse without
\* cold room although a storage location has room.
C29_Witness ==
    /\ ret.tool = "get_optimal_putaway_location"
    /\ ret.sku = "Y"
    /\ ret.status = "no_suitable_location"
    /\ \A c \in DOMAIN locations : locations[c].location_type # "cold_storage"
    /\ \E c \in DOMAIN locations :
          /\ locations[c].is_active
          /\ locations[c].location_type = "storage"
          /\ locations[c].capacity_units - locations[c].current_units >= ret.quantity

\* Rank of a suggestion: 1 the location holds the product in the requested
\* lot, 2 it holds the product in another lot, 3 it lies in a zone preferred
\* for the product's velocity class, 4 otherwise
Tier(s) ==
    IF s.consolidation THEN (IF s.same_lot THEN 1 ELSE 2)
    ELSE IF locations[s.location_code].zone
                \in (CASE products[ret.sku].velocity_class = "A" -> {"A", "B"}
                       [] products[ret.sku].velocity_class = "B" -> {"B", "C"}
                       [] products[ret.sku].velocity_class = "C" -> {"C", "D", "E"})
    THEN 3 ELSE 4

\* A suggestion says of the stock at its location what the stock rows say
DescribesStock(s) ==
    LET held == {i \in Rows : /\ inventory_items[i].product_id = ret.sku
                              /\ inventory_items[i].location_id = s.location_code
                              /\ inventory_items[i].quantity_on_hand > 0}
    IN  IF s.consolidation
        THEN \E i \in held :
                /\ s.existing_quantity = inventory_items[i].quantity_on_hand
                /\ s.same_lot <=> (inventory_items[i].lot_number = ret.lot_number)
        ELSE held = {} /\ s.existing_quantity = 0

\* C30: the suggestions come in rank order (same product and lot, same
\* product, preferred zone, others), no suggestion of a lower rank before one
\* of a higher rank, the others by descending available capacity, and at
\* most five of them.
C30_SuggestionsInRankOrder ==
    (ret.tool = "get_optimal_putaway_location" /\ ret.status = "success")
    => /\ Len(ret.suggestions) <= 5
       /\ \A k \in 1..Len(ret.suggestions) :
             /\ DescribesStock(ret.suggestions[k])
             /\ ret.suggestions[k].available_capacity =
                    locations[ret.suggestions[k].location_code].capacity_units
                    - locations[ret.suggestions[k].location_code].current_units
       /\ \A i, j \in 1..Len(ret.suggestions) :
             i < j =>
                /\ Tier(ret.suggestions[i]) <= Tier(ret.suggestions[j])
                /\ (Tier(ret.suggestions[i]) = 4 /\ Tier(ret.suggestions[j]) = 4)
                       => ret.suggestions[i].available_capacity
                              >= ret.suggestions[j].available_capacity

\* C30 witness: X was put away for lot L1 where it lies in two lots at each
\* of two locations; of the six suggestions found five are returned, the two
\* of lot L1 first, then the two of the other lot, then an empty location.
C30_Witness ==
    /\ ret.tool = "get_optimal_putaway_location"
    /\ ret.status = "success"
    /\ ret.lot_number = "L1"
    /\ inventory_items = CrowdedStock
    /\ LayoutIs(AisleLayout)
    /\ [k \in 1..Len(ret.suggestions) |-> Tier(ret.suggestions[k])] = <<1, 1, 2, 2, 3>>

\* Sum of a column over a set of locations
RECURSIVE SumOver(_, _)
SumOver(codes, column) ==
    IF codes = {} THEN 0
    ELSE LET c == CHOOSE c \in codes : TRUE
         IN  locations[c][column] + SumOver(codes \ {c}, column)

\* Sum of a field over the zone entries of a layout report
RECURSIVE SumZones(_, _)
SumZones(zones, field) ==
    IF zones = <<>> THEN 0 ELSE Head(zones)[field] + SumZones(Tail(zones), field)

\* The active locations of a zone
ActiveIn(zone) ==
    {c \in DOMAIN locations : locations[c].is_active /\ locations[c].zone = zone}

\* The report lists each zone with an active location once, with the sums
\* over its active locations, and overall totals that sum the zone totals
LayoutReportIsRight ==
    /\ {ret.zones[k].zone : k \in 1..Len(ret.zones)}
           = {locations[c].zone : c \in {d \in DOMAIN locations : locations[d].is_active}}
    /\ \A j, k \in 1..Len(ret.zones) : ret.zones[j].zone = ret.zones[k].zone => j = k
    /\ \A k \in 1..Len(ret.zones) :
          /\ ret.zones[k].total_capacity = SumOver(ActiveIn(ret.zones[k].zone), "capacity_units")
          /\ ret.zones[k].used_capacity = SumOver(ActiveIn(ret.zones[k].zone), "current_units")
    /\ ret.total_capacity_units = SumZones(ret.zones, "total_capacity")
    /\ ret.total_used_units = SumZones(ret.zones, "used_capacity")

\* C31: get_warehouse_layout reports for every zone the sums of
\* capacity_units and current_units over the zone's active locations, and
\* overall totals equal to the sums of the zone totals; the call leaves the
\* stock records, the locations and the audit log as they were.
C31_LayoutTotalsReadOnly ==
    [][ret'.tool = "get_warehouse_layout"
       => /\ UNCHANGED db
          /\ ret'.status = "success" => LayoutReportIsRight']_vars

\* C31 witness: a report over two zones, one of them with a closed location
\* that holds stock, was returned.
C31_Witness ==
    /\ ret.tool = "get_warehouse_layout"
    /\ ret.status = "success"
    /\ Len(ret.zones) >= 1
    /\ ret.total_used_units > 0
    /\ \E c \in DOMAIN locations : ~locations[c].is_active /\ locations[c].current_units > 0

\* ---------------------------------------------------------------------
\* Further properties of the ledger
\* ---------------------------------------------------------------------

\* C32: the audit log is append-only: no step of a ledger operation,
\* successful or failed, changes or deletes an audit entry already
\* committed; the committed log only grows at its end.
C32_AuditLogAppendOnly ==
    [][/\ Len(audit_logs') >= Len(audit_logs)
       /\ \A k \in 1..Len(audit_logs) : audit_logs'[k] = audit_logs[k]]_vars

\* C32 witness: a call failed after an audit entry had been committed, and
\* the log holds its entry.
C32_Witness ==
    /\ Len(audit_logs) >= 1
    /\ ret.tool \in Tools
    /\ ret.status \notin {"success", ""}

\* C33: location usage tracks the stock the location holds: after any
\* sequence of adjust, allocate, deallocate and reconcile operations every
\* location's current_units equals the sum of quantity_on_hand of the stock
\* records at the location, as it did before the first of them.
C33_LocationUsageTracksStock ==
    \A code \in LocationCodes :
        locations[code].current_units = SumOnHand(inventory_items, code)

\* C34: in every reachable state there is at most one stock record per
\* (product, location) pair, also when two first receipts for the pair run
\* in concurrent sessions, so the single-record lookup of the ledger tools
\* never finds two records.
C34_OneRecordPerProductAndLocation ==
    \A i, j \in 1..Len(inventory_items) :
        (/\ inventory_items[i].product_id = inventory_items[j].product_id
         /\ inventory_items[i].location_id = inventory_items[j].location_id)
        => i = j

\* ---------------------------------------------------------------------
\* Further properties of the operations tools
\* ---------------------------------------------------------------------

\* Sum of the quantities of demand lines
RECURSIVE SumDemanded(_)
SumDemanded(items) ==
    IF items = <<>> THEN 0 ELSE Head(items).quantity + SumDemanded(Tail(items))

\* C35: a successful generate_pick_route returns exactly one step per demand
\* line, the step carrying the line's SKU and quantity and the location
\* chosen for the line, numbered 1..n, with total_items the number of lines
\* and total_units the sum of the demanded quantities, also when two lines
\* resolve to the same location.
C35_OneStepPerDemandLine ==
    (ret.tool = "generate_pick_route" /\ ret.status = "success")
    => /\ Len(ret.route) = Len(ret.items)
       /\ \A k \in 1..Len(ret.route) : ret.route[k].sequence = k
       /\ ret.total_items = Len(ret.items)
       /\ ret.total_units = SumDemanded(ret.items)
       /\ \E line \in Orders(1..Len(ret.items)) :
             \A k \in 1..Len(ret.route) :
                /\ ret.route[k].sku = ret.items[line[k]].sku
                /\ ret.route[k].quantity = ret.items[line[k]].quantity
                /\ ret.route[k].location_code = ret.pick_locations[line[k]].location

\* Stock records the ledger created (the seeded ones come without audit)
CreatedByLedger == (Len(SeededItems) + 1)..Len(inventory_items)

\* C36: the audit trail reproduces the ledger: for every stock record
\* created through the ledger, quantity_on_hand is the sum of the changes of
\* its stock_update and reconciliation entries, quantity_allocated the sum
\* of the changes of its allocation and deallocation entries, and every
\* stock_update or reconciliation entry has quantity_after =
\* quantity_before + quantity_change with quantity_before the
\* quantity_after of the previous such entry.
C36_AuditTrailReproducesLedger ==
    \A id \in CreatedByLedger :
        LET stock == AuditEntries(id, {"stock_update", "reconciliation"})
        IN  /\ inventory_items[id].quantity_on_hand
                   = AuditChange(audit_logs, id, {"stock_update", "reconciliation"})
            /\ inventory_items[id].quantity_allocated
                   = AuditChange(audit_logs, id, {"allocation", "deallocation"})
            /\ \A k \in stock :
                  /\ audit_logs[k].quantity_after
                         = audit_logs[k].quantity_before + audit_logs[k].quantity_change
                  /\ \A j \in stock :
                        (j < k /\ \A m \in stock : ~(j < m /\ m < k))
                        => audit_logs[k].quantity_before = audit_logs[j].quantity_after

\* C37: whatever integer quantity is passed (positive, zero or negative), a
\* successful allocate_stock never decreases quantity_allocated of the
\* record and a successful deallocate_stock never increases it.
C37_AllocateUpDeallocateDown ==
    [][(Returned /\ ret'.status = "success" /\ TargetId # 0)
        => /\ ret'.tool = "allocate_stock"
                 => inventory_items'[TargetId].quantity_allocated
                        >= inventory_items[TargetId].quantity_allocated
           /\ ret'.tool = "deallocate_stock"
                 => inventory_items'[TargetId].quantity_allocated
                        <= inventory_items[TargetId].quantity_allocated]_vars

\* C39: get_optimal_putaway_location never lists a location twice: in every
\* result each location code is in at most one suggestion, also when the
\* location holds several stock records of the product.
C39_EachLocationSuggestedOnce ==
    (ret.tool = "get_optimal_putaway_location" /\ ret.status = "success")
    => \A j, k \in 1..Len(ret.suggestions) :
          ret.suggestions[j].location_code = ret.suggestions[k].location_code => j = k

\* C40: calculate_days_of_cover with average_daily_demand <= 0 never
\* divides by zero: for a known product it returns without error, reports
\* the days of cover as unlimited and classifies the product neither as
\* critical nor as low.
C40_NoDemandUnlimitedCover ==
    (/\ ret.tool = "calculate_days_of_cover"
     /\ ret.sku \in DOMAIN products
     /\ ret.average_daily_demand <= 0)
    => /\ ret.status = "success"
       /\ ret.days_of_cover.unlimited
       /\ ret.days_of_cover_with_incoming.unlimited
       /\ ret.cover_status \notin {"critical", "low"}

\* C40 witness: the days of cover of a product in stock were asked for a
\* demand of zero, and the call returned.
C40_Witness ==
    /\ ret.tool = "calculate_days_of_cover"
    /\ ret.average_daily_demand = 0
    /\ ret.status = "success"
    /\ ret.available_stock > 0
    /\ ret.days_of_cover.unlimited

Routing == ret.tool = "generate_pick_route" /\ ret.status = "routing"

====
